---- MODULE Spec2Model ----
(***************************************************************************)
(* A model of the BTC_Strat backtester: the rolling-percentile regime      *)
(* engine (src/src/regime.py), the hybrid pricing engine                   *)
(* (src/src/pricing.py) and the strategy state machines                    *)
(* (src/src/strategy.py, strategy_wheel.py, strategy_csp.py), and the      *)
(* batch runners (src/main.py, src/src/backtest_engine.py).                *)
(*                                                                         *)
(* Four specifications share the module:                                   *)
(*   SpecRegime   one call of RollingPercentileRegime.add_signals          *)
(*   SpecPricing  calls of OptionPricing.get_price against a loaded chain  *)
(*   Spec         one run of a strategy over a market-data table           *)
(*   SpecBatch    a batch of strategies over one shared table              *)
(* Each leaves the variables of the others at their initial values.        *)
(***************************************************************************)
EXTENDS Integers, Sequences, FiniteSets, TLC

VARIABLES
    \* ---- regime engine (add_signals) ----
    df_sigma,       \* the input column data[target_col], one value per row
    window,         \* self.window
    min_periods,    \* self.min_periods
    q_he, q_hx,     \* data['q_high_enter'], data['q_high_exit'] (times 100)
    q_le, q_lx,     \* data['q_low_enter'],  data['q_low_exit']  (times 100)
    current_state,  \* the loop's current_state
    signals,        \* the list signals
    rpc,            \* position in add_signals: "rolling", "loop", "done", "idle"
    \* ---- pricing engine (class OptionPricing) ----
    is_setup,       \* OptionPricing._is_setup
    market_cache,   \* OptionPricing._market_cache: <<>> is None, <<d>> the dict d
    setup_msg,      \* what setup_market_data printed last: "", "not_found",
                    \* "failed" or "built"
    req,            \* the arguments of the call in progress, <<>> between calls
    ret,            \* what that call returned
    \* ---- one run of a strategy over a table df ----
    kind,           \* the strategy class
    tenor,          \* self.days (strategy.py) or self.target_dte
    df_len,         \* len(df)
    row_no,         \* the row the loop is at, counted from 1
    cur_row,        \* that row: price, sigma, r, vol_gap
    pc,             \* position in the loop body: "settle", "decide", "record",
                    \* "done" after the last row, "idle" outside a run
    cash,           \* self.cash (strategy.py) or the local cash
    btc,            \* self.btc
    positions,      \* self.positions
    stage,          \* WheelStrategy.stage of strategy.py: "CSP" or "CC"
    history,        \* self.history
    stock_holdings, \* strategy_wheel.py: stock_holdings
    wheel_state,    \* strategy_wheel.py: state, "CASH" or "STOCK"
    current_option, \* strategy_wheel.py: current_option, strategy_csp.py:
                    \* current_position; <<>> is None, <<o>> the dict o
    portfolio_value, \* the list portfolio_value
    \* ---- a batch of strategies over one shared table ----
    driver,         \* who runs the batch: "main" (src/main.py) or "engine"
                    \* (BacktestEngine.run_strategies)
    data,           \* the shared table: df of main.py, self.data of the engine
    strategies,     \* the strategy objects of the batch, in order
    accounts,       \* the fields of each BaseStrategy object: cash, btc,
                    \* positions, stage, history
    strat_no,       \* the strategy the loop is at, counted from 1
    all_equity_curves, \* the list all_equity_curves of run_strategies
    batch_log,      \* the result lines printed, one per strategy run
    master_df,      \* what run_strategies returned, <<>> before it returns
    bpc             \* "loop", "done" after the batch, "idle" outside one

regimeVars == <<df_sigma, window, min_periods, q_he, q_hx, q_le, q_lx,
                current_state, signals, rpc>>

pricingVars == <<is_setup, market_cache, setup_msg, req, ret>>

runVars == <<kind, tenor, df_len, row_no, cur_row, pc>>

accountVars == <<cash, btc, positions, stage, history>>

deltaVars == <<stock_holdings, wheel_state, current_option, portfolio_value>>

strategyVars == <<runVars, accountVars, deltaVars>>

batchVars == <<driver, data, strategies, accounts, strat_no,
               all_equity_curves, batch_log, master_df, bpc>>

vars == <<regimeVars, pricingVars, strategyVars, batchVars>>

\* ------------------------------------------------------------------------
\* Bounds of the model
\* ------------------------------------------------------------------------
MaxLen == 5         \* rows of the volatility series given to add_signals
MaxWindow == 4      \* largest rolling window an engine is built with
MaxRows == 4        \* rows of the market-data table a strategy runs over
MaxDays == 2        \* longest option tenor (days, target_dte) of a strategy

\* ------------------------------------------------------------------------
\* Units.  Spot prices and strikes are whole dollars.  Money (cash, option
\* prices, equity) is counted in 1e-5 dollars, so that the 0.0001 of
\* get_price is 10; quantities (option size, underlying held) are counted in
\* thousandths, so that the dust threshold 0.001 is 1.
\* ------------------------------------------------------------------------
MoneyScale == 100000
UnitScale == 1000
\* Money per (dollar times one thousandth of a unit).
MoneyPerMilli == MoneyScale \div UnitScale

Abs(x) == IF x < 0 THEN 0 - x ELSE x
Max(a, b) == IF a > b THEN a ELSE b
Idx(seq, x) == CHOOSE i \in DOMAIN seq : seq[i] = x

\* ------------------------------------------------------------------------
\* The Black-Scholes closed form and the delta-to-strike inversion on the
\* grid of the model, evaluated at r = 0.04 (tools/gen_tables.py): spot in
\* TabPrices, volatility in percent in TabVols, T in days 1..3.
\* ------------------------------------------------------------------------
\* The annualised risk-free rate a row carries, in percent.
RiskFreeVals == {4}
TabPrices == <<80, 100, 120>>
TabSigmas == <<40, 160>>
TabVols == <<-40, 0, 40, 42, 160, 182, 900, 1070>>
TabDeltas == <<-94, -30, -20, -15, -6, 6, 15, 20, 30, 94>>
PutStrikes == <<70, 71, 72, 73, 74, 75, 76, 77, 78, 79, 87, 89, 90, 91, 92, 93, 94, 95, 96, 97, 98, 99, 104, 107, 108, 109, 110, 112, 114, 115, 116, 117, 118, 119>>
CallStrikes == <<81, 82, 83, 84, 86, 87, 88, 89, 91, 100, 101, 102, 103, 105, 107, 108, 109, 110, 111, 114, 121, 122, 123, 124, 126, 129, 131, 132, 134, 137>>
\* StrikeTab[delta][spot][sigma][T]: _bsm_find_strike, in 1e-6 dollars
StrikeTab == <<
    <<<<<<82674204, 83824051, 84723672>>, <<91455451, 96873182, 101332217>>>>, <<<<103342755, 104780064, 105904591>>, <<114319314, 121091477, 126665272>>>>, <<<<124011306, 125736076, 127085509>>, <<137183177, 145309773, 151998326>>>>>>,
    <<<<<<79152475, 78819232, 78570487>>, <<76840025, 75728223, 74949067>>>>, <<<<98940593, 98524039, 98213108>>, <<96050032, 94660279, 93686334>>>>, <<<<118728712, 118228847, 117855730>>, <<115260038, 113592335, 112423600>>>>>>,
    <<<<<<78628515, 78082373, 77671818>>, <<74825529, 72935840, 71578458>>>>, <<<<98285643, 97602966, 97089773>>, <<93531911, 91169800, 89473073>>>>, <<<<117942772, 117123559, 116507727>>, <<112238293, 109403760, 107367687>>>>>>,
    <<<<<<78308460, 77633270, 77125028>>, <<73614648, 71272255, 69584065>>>>, <<<<97885575, 97041587, 96406285>>, <<92018310, 89090319, 86980082>>>>, <<<<117462690, 116449905, 115687542>>, <<110421972, 106908383, 104376098>>>>>>,
    <<<<<<77463215, 76450874, 75688847>>, <<70487414, 67028393, 64544022>>>>, <<<<96829018, 95563593, 94611059>>, <<88109267, 83785491, 80680027>>>>, <<<<116194822, 114676311, 113533271>>, <<105731120, 100542589, 96816033>>>>>>,
    <<<<<<82674204, 83824051, 84723672>>, <<91455451, 96873182, 101332217>>>>, <<<<103342755, 104780064, 105904591>>, <<114319314, 121091477, 126665272>>>>, <<<<124011306, 125736076, 127085509>>, <<137183177, 145309773, 151998326>>>>>>,
    <<<<<<81781836, 82547366, 83145994>>, <<87570319, 91104928, 93992623>>>>, <<<<102227295, 103184208, 103932492>>, <<109462899, 113881160, 117490779>>>>, <<<<122672754, 123821049, 124718991>>, <<131355479, 136657392, 140988935>>>>>>,
    <<<<<<81448946, 82072583, 82560667>>, <<86153193, 89026927, 91373704>>>>, <<<<101811182, 102590728, 103200834>>, <<107691491, 111283658, 114217130>>>>, <<<<122173418, 123108874, 123841001>>, <<129229789, 133540390, 137060556>>>>>>,
    <<<<<<80909784, 81305309, 81616360>>, <<83894535, 85744170, 87264447>>>>, <<<<101137230, 101631636, 102020450>>, <<104868169, 107180213, 109080558>>>>, <<<<121364676, 121957964, 122424540>>, <<125841803, 128616256, 130896670>>>>>>,
    <<<<<<77463215, 76450874, 75688847>>, <<70487414, 67028393, 64544022>>>>, <<<<96829018, 95563593, 94611059>>, <<88109267, 83785491, 80680027>>>>, <<<<116194822, 114676311, 113533271>>, <<105731120, 100542589, 96816033>>>>>> >>
\* The strikes the inversion returns on the grid, in 1e-6 dollars
FineStrikes == <<
    64544022, 67028393, 69584065, 70487414, 71272255, 71578458, 72935840, 73614648,
    74825529, 74949067, 75688847, 75728223, 76450874, 76840025, 77125028, 77463215,
    77633270, 77671818, 78082373, 78308460, 78570487, 78628515, 78819232, 79152475,
    80680027, 80909784, 81305309, 81448946, 81616360, 81781836, 82072583, 82547366,
    82560667, 82674204, 83145994, 83785491, 83824051, 83894535, 84723672, 85744170,
    86153193, 86980082, 87264447, 87570319, 88109267, 89026927, 89090319, 89473073,
    91104928, 91169800, 91373704, 91455451, 92018310, 93531911, 93686334, 93992623,
    94611059, 94660279, 95563593, 96050032, 96406285, 96816033, 96829018, 96873182,
    97041587, 97089773, 97602966, 97885575, 98213108, 98285643, 98524039, 98940593,
    100542589, 101137230, 101332217, 101631636, 101811182, 102020450, 102227295, 102590728,
    103184208, 103200834, 103342755, 103932492, 104376098, 104780064, 104868169, 105731120,
    105904591, 106908383, 107180213, 107367687, 107691491, 109080558, 109403760, 109462899,
    110421972, 111283658, 112238293, 112423600, 113533271, 113592335, 113881160, 114217130,
    114319314, 114676311, 115260038, 115687542, 116194822, 116449905, 116507727, 117123559,
    117462690, 117490779, 117855730, 117942772, 118228847, 118728712, 121091477, 121364676,
    121957964, 122173418, 122424540, 122672754, 123108874, 123821049, 123841001, 124011306,
    124718991, 125736076, 125841803, 126665272, 127085509, 128616256, 129229789, 130896670,
    131355479, 133540390, 136657392, 137060556, 137183177, 140988935, 145309773, 151998326 >>
\* NdOneTab[strike][spot][sigma][T]: N(d1) of the closed form at the
\* strikes of FineStrikes, in 1e-7
NdOneTab == <<
    <<<<<<10000000, 10000000, 10000000>>, <<9954275, 9695118, 9400000>>>>, <<<<10000000, 10000000, 10000000>>, <<9999999, 9999143, 9990096>>>>, <<<<10000000, 10000000, 10000000>>, <<10000000, 9999999, 9999932>>>>>>,
    <<<<<<10000000, 10000000, 9999995>>, <<9844425, 9400000, 9022361>>>>, <<<<10000000, 10000000, 10000000>>, <<9999993, 9997079, 9976924>>>>, <<<<10000000, 10000000, 10000000>>, <<10000000, 9999997, 9999784>>>>>>,
    <<<<<<10000000, 9999989, 9999464>>, <<9562551, 8922961, 8500000>>>>, <<<<10000000, 10000000, 10000000>>, <<9999939, 9991046, 9949846>>>>, <<<<10000000, 10000000, 10000000>>, <<10000000, 9999984, 9999364>>>>>>,
    <<<<<<10000000, 9999914, 9997826>>, <<9400000, 8707462, 8283110>>>>, <<<<10000000, 10000000, 10000000>>, <<9999877, 9987108, 9935378>>>>, <<<<10000000, 10000000, 10000000>>, <<10000000, 9999974, 9999090>>>>>>,
    <<<<<<10000000, 9999564, 9993426>>, <<9225675, 8500000, 8081709>>>>, <<<<10000000, 10000000, 10000000>>, <<9999782, 9982526, 9920130>>>>, <<<<10000000, 10000000, 10000000>>, <<10000000, 9999959, 9998770>>>>>>,
    <<<<<<10000000, 9999212, 9990143>>, <<9148695, 8414020, 8000000>>>>, <<<<10000000, 10000000, 10000000>>, <<9999728, 9980386, 9913426>>>>, <<<<10000000, 10000000, 10000000>>, <<10000000, 9999951, 9998620>>>>>>,
    <<<<<<9999953, 9991679, 9950093>>, <<8743195, 8000000, 7618024>>>>, <<<<10000000, 10000000, 10000000>>, <<9999309, 9967916, 9877896>>>>, <<<<10000000, 10000000, 10000000>>, <<10000000, 9999900, 9997737>>>>>>,
    <<<<<<9999668, 9976838, 9898569>>, <<8500000, 7773887, 7415877>>>>, <<<<10000000, 10000000, 10000000>>, <<9998926, 9959452, 9856134>>>>, <<<<10000000, 10000000, 10000000>>, <<10000000, 9999859, 9997129>>>>>>,
    <<<<<<9993351, 9887119, 9693353>>, <<8000000, 7342280, 7039423>>>>, <<<<10000000, 10000000, 10000000>>, <<9997726, 9939586, 9809652>>>>, <<<<10000000, 10000000, 10000000>>, <<10000000, 9999743, 9995673>>>>>>,
    <<<<<<9991279, 9869533, 9660465>>, <<7944397, 7296392, 7000000>>>>, <<<<10000000, 10000000, 10000000>>, <<9997552, 9937161, 9804310>>>>, <<<<10000000, 10000000, 10000000>>, <<10000000, 9999727, 9995493>>>>>>,
    <<<<<<9961108, 9708275, 9400000>>, <<7594835, 7015251, 6760524>>>>, <<<<10000000, 10000000, 10000000>>, <<9996229, 9920860, 9769797>>>>, <<<<10000000, 10000000, 10000000>>, <<10000000, 9999613, 9994269>>>>>>,
    <<<<<<9958142, 9696402, 9382724>>, <<7575464, 7000000, 6747626>>>>, <<<<10000000, 10000000, 10000000>>, <<9996144, 9919901, 9767835>>>>, <<<<10000000, 10000000, 10000000>>, <<10000000, 9999606, 9994196>>>>>>,
    <<<<<<9854850, 9400000, 8994693>>, <<7207351, 6715549, 6508544>>>>, <<<<10000000, 10000000, 10000000>>, <<9994220, 9900513, 9729453>>>>, <<<<10000000, 10000000, 10000000>>, <<10000000, 9999451, 9992709>>>>>>,
    <<<<<<9738451, 9167131, 8725490>>, <<7000000, 6559157, 6378154>>>>, <<<<10000000, 10000000, 10000000>>, <<9992859, 9888555, 9706850>>>>, <<<<10000000, 10000000, 10000000>>, <<10000000, 9999346, 9991777>>>>>>,
    <<<<<<9611129, 8958517, 8500000>>, <<6844554, 6443398, 6282050>>>>, <<<<10000000, 10000000, 10000000>>, <<9991686, 9879066, 9689398>>>>, <<<<10000000, 10000000, 10000000>>, <<9999999, 9999257, 9991029>>>>>>,
    <<<<<<9400000, 8666070, 8201091>>, <<6656563, 6304861, 6167438>>>>, <<<<10000000, 10000000, 10000000>>, <<9990073, 9866955, 9667673>>>>, <<<<10000000, 10000000, 10000000>>, <<9999999, 9999139, 9990065>>>>>>,
    <<<<<<9264757, 8500000, 8038103>>, <<6560717, 6234771, 6109601>>>>, <<<<10000000, 10000000, 10000000>>, <<9989161, 9860500, 9656323>>>>, <<<<10000000, 10000000, 10000000>>, <<9999999, 9999073, 9989547>>>>>>,
    <<<<<<9231128, 8460570, 8000000>>, <<6538878, 6218847, 6096474>>>>, <<<<10000000, 10000000, 10000000>>, <<9988945, 9859002, 9653709>>>>, <<<<10000000, 10000000, 10000000>>, <<9999999, 9999057, 9989427>>>>>>,
    <<<<<<8799085, 8000000, 7568629>>, <<6303910, 6048507, 5956318>>>>, <<<<10000000, 10000000, 10000000>>, <<9986384, 9842219, 9624938>>>>, <<<<10000000, 10000000, 10000000>>, <<9999999, 9998876, 9988065>>>>>>,
    <<<<<<8500000, 7715535, 7312233>>, <<6172878, 5954203, 5878913>>>>, <<<<10000000, 10000000, 10000000>>, <<9984759, 9832307, 9608348>>>>, <<<<10000000, 10000000, 10000000>>, <<9999999, 9998763, 9987251>>>>>>,
    <<<<<<8097249, 7360299, 7000000>>, <<6019808, 5844558, 5789057>>>>, <<<<10000000, 10000000, 10000000>>, <<9982663, 9820196, 9588441>>>>, <<<<10000000, 10000000, 10000000>>, <<9999998, 9998620, 9986248>>>>>>,
    <<<<<<8000000, 7278155, 6928841>>, <<5985757, 5820233, 5769141>>>>, <<<<10000000, 10000000, 10000000>>, <<9982166, 9817421, 9583933>>>>, <<<<10000000, 10000000, 10000000>>, <<9999998, 9998586, 9986017>>>>>>,
    <<<<<<7660535, 7000000, 6690303>>, <<5873505, 5740198, 5703652>>>>, <<<<10000000, 10000000, 10000000>>, <<9980442, 9808057, 9568857>>>>, <<<<10000000, 10000000, 10000000>>, <<9999998, 9998469, 9985233>>>>>>,
    <<<<<<7000000, 6487362, 6258549>>, <<5676353, 5600102, 5589148>>>>, <<<<10000000, 10000000, 10000000>>, <<9977075, 9790776, 9541551>>>>, <<<<10000000, 10000000, 10000000>>, <<9999997, 9998245, 9983772>>>>>>,
    <<<<<<3487940, 3960198, 4183119>>, <<4769190, 4958518, 5065588>>>>, <<<<10000000, 10000000, 10000000>>, <<9954275, 9695118, 9400000>>>>, <<<<10000000, 10000000, 10000000>>, <<9999991, 9996788, 9975358>>>>>>,
    <<<<<<3000000, 3595344, 3879635>>, <<4634113, 4862757, 4987382>>>>, <<<<10000000, 10000000, 10000000>>, <<9949535, 9678184, 9376289>>>>, <<<<10000000, 10000000, 10000000>>, <<9999990, 9996493, 9973815>>>>>>,
    <<<<<<2244300, 3000000, 3375696>>, <<4403537, 4698756, 4853296>>>>, <<<<10000000, 10000000, 10000000>>, <<9940382, 9647342, 9333934>>>>, <<<<10000000, 10000000, 10000000>>, <<9999986, 9995928, 9970963>>>>>>,
    <<<<<<2000000, 2796059, 3199716>>, <<4320535, 4639506, 4804796>>>>, <<<<10000000, 10000000, 10000000>>, <<9936723, 9635598, 9318067>>>>, <<<<10000000, 10000000, 10000000>>, <<9999985, 9995704, 9969863>>>>>>,
    <<<<<<1736873, 2567620, 3000000>>, <<4224355, 4570682, 4748413>>>>, <<<<10000000, 10000000, 10000000>>, <<9932217, 9621535, 9299242>>>>, <<<<10000000, 10000000, 10000000>>, <<9999983, 9995428, 9968537>>>>>>,
    <<<<<<1500000, 2352193, 2808720>>, <<4129934, 4502919, 4692845>>>>, <<<<10000000, 10000000, 10000000>>, <<9927497, 9607232, 9280285>>>>, <<<<10000000, 10000000, 10000000>>, <<9999981, 9995140, 9967178>>>>>>,
    <<<<<<1139213, 2000000, 2488494>>, <<3965732, 4384549, 4595633>>>>, <<<<10000000, 10000000, 10000000>>, <<9918526, 9581113, 9246124>>>>, <<<<10000000, 10000000, 10000000>>, <<9999977, 9994595, 9964669>>>>>>,
    <<<<<<692446, 1500000, 2012462>>, <<3702832, 4193366, 4438165>>>>, <<<<10000000, 10000000, 9999999>>, <<9901855, 9535674, 9187981>>>>, <<<<10000000, 10000000, 10000000>>, <<9999968, 9993587, 9960221>>>>>>,
    <<<<<<682258, 1487349, 2000000>>, <<3695569, 4188051, 4433779>>>>, <<<<10000000, 10000000, 9999999>>, <<9901350, 9534350, 9186310>>>>, <<<<10000000, 10000000, 10000000>>, <<9999967, 9993557, 9960090>>>>>>,
    <<<<<<600000, 1382341, 1895605>>, <<3633808, 4142778, 4396390>>>>, <<<<10000000, 10000000, 9999999>>, <<9896944, 9522935, 9171949>>>>, <<<<10000000, 10000000, 10000000>>, <<9999965, 9993291, 9958956>>>>>>,
    <<<<<<338829, 1001899, 1500000>>, <<3381990, 3956588, 4242183>>>>, <<<<10000000, 10000000, 9999998>>, <<9876827, 9473263, 9110451>>>>, <<<<10000000, 10000000, 10000000>>, <<9999952, 9992081, 9953946>>>>>>,
    <<<<<<141714, 618736, 1060680>>, <<3054216, 3709679, 4036411>>>>, <<<<10000000, 10000000, 9999995>>, <<9844425, 9400000, 9022361>>>>, <<<<10000000, 10000000, 10000000>>, <<9999926, 9990132, 9946340>>>>>>,
    <<<<<<133977, 600000, 1037623>>, <<3034986, 3695008, 4024133>>>>, <<<<10000000, 10000000, 9999995>>, <<9842266, 9395358, 9016875>>>>, <<<<10000000, 10000000, 10000000>>, <<9999924, 9990002, 9945850>>>>>>,
    <<<<<<120783, 566925, 996447>>, <<3000000, 3668256, 4001728>>>>, <<<<10000000, 10000000, 9999994>>, <<9838254, 9386806, 9006794>>>>, <<<<10000000, 10000000, 10000000>>, <<9999921, 9989760, 9944944>>>>>>,
    <<<<<<32214, 277268, 600000>>, <<2604914, 3360350, 3742194>>>>, <<<<10000000, 10000000, 9999979>>, <<9784448, 9279588, 8883184>>>>, <<<<10000000, 10000000, 10000000>>, <<9999866, 9986508, 9933297>>>>>>,
    <<<<<<4900, 101793, 297191>>, <<2162864, 3000000, 3433859>>>>, <<<<10000000, 9999999, 9999902>>, <<9699237, 9130319, 8718317>>>>, <<<<10000000, 10000000, 10000000>>, <<9999751, 9981286, 9916216>>>>>>,
    <<<<<<2129, 65618, 218912>>, <<2000000, 2861792, 3314012>>>>, <<<<10000000, 9999998, 9999824>>, <<9658368, 9064962, 8648311>>>>, <<<<10000000, 10000000, 10000000>>, <<9999683, 9978743, 9908427>>>>>>,
    <<<<<<345, 25315, 113165>>, <<1696171, 2593882, 3078693>>>>, <<<<10000000, 9999989, 9999464>>, <<9562551, 8922961, 8500000>>>>, <<<<10000000, 10000000, 10000000>>, <<9999490, 9972672, 9890859>>>>>>,
    <<<<<<177, 17885, 89041>>, <<1599525, 2505400, 3000000>>>>, <<<<10000000, 9999981, 9999228>>, <<9525222, 8871046, 8446924>>>>, <<<<10000000, 10000000, 10000000>>, <<9999402, 9970263, 9884217>>>>>>,
    <<<<<<84, 12171, 68303>>, <<1500000, 2412353, 2916667>>>>, <<<<10000000, 9999967, 9998867>>, <<9482414, 8813436, 8388665>>>>, <<<<10000000, 10000000, 10000000>>, <<9999291, 9967470, 9876710>>>>>>,
    <<<<<<22, 6005, 42036>>, <<1335650, 2253829, 2773203>>>>, <<<<10000000, 9999914, 9997826>>, <<9400000, 8707462, 8283110>>>>, <<<<10000000, 10000000, 10000000>>, <<9999049, 9961997, 9862526>>>>>>,
    <<<<<<2, 1663, 17447>>, <<1087106, 2000000, 2539057>>>>, <<<<10000000, 9999605, 9993861>>, <<9237928, 8513969, 8095075>>>>, <<<<10000000, 10000000, 10000000>>, <<9998458, 9950862, 9835373>>>>>>,
    <<<<<<1, 1516, 16379>>, <<1071341, 1983217, 2523361>>>>, <<<<10000000, 9999564, 9993426>>, <<9225675, 8500000, 8081709>>>>, <<<<10000000, 10000000, 10000000>>, <<9998406, 9950000, 9833350>>>>>>,
    <<<<<<0, 859, 11110>>, <<979876, 1883946, 2429918>>>>, <<<<10000000, 9999212, 9990143>>, <<9148695, 8414020, 8000000>>>>, <<<<10000000, 10000000, 10000000>>, <<9998062, 9944515, 9820708>>>>>>,
    <<<<<<0, 63, 1874>>, <<656595, 1500000, 2057340>>>>, <<<<9999960, 9992337, 9952855>>, <<8760672, 8016783, 7633189>>>>, <<<<10000000, 10000000, 10000000>>, <<9995698, 9915073, 9758051>>>>>>,
    <<<<<<0, 56, 1739>>, <<645803, 1486031, 2043396>>>>, <<<<9999953, 9991679, 9950093>>, <<8743195, 8000000, 7618024>>>>, <<<<10000000, 10000000, 10000000>>, <<9995564, 9913675, 9755247>>>>>>,
    <<<<<<0, 40, 1371>>, <<612826, 1442755, 2000000>>>>, <<<<9999924, 9989260, 9940461>>, <<8687228, 7946774, 7570082>>>>, <<<<10000000, 10000000, 10000000>>, <<9995121, 9909154, 9746269>>>>>>,
    <<<<<<0, 34, 1246>>, <<600000, 1425672, 1982785>>>>, <<<<9999907, 9988122, 9936165>>, <<8664350, 7925235, 7550746>>>>, <<<<10000000, 10000000, 10000000>>, <<9994932, 9907287, 9742599>>>>>>,
    <<<<<<0, 13, 635>>, <<517586, 1312161, 1867103>>>>, <<<<9999668, 9976838, 9898569>>, <<8500000, 7773887, 7415877>>>>, <<<<10000000, 10000000, 10000000>>, <<9993443, 9893549, 9716202>>>>>>,
    <<<<<<0, 1, 93>>, <<341632, 1041211, 1580368>>>>, <<<<9993351, 9887119, 9693353>>, <<8000000, 7342280, 7039423>>>>, <<<<10000000, 10000000, 10000000>>, <<9987305, 9848078, 9634881>>>>>>,
    <<<<<<0, 1, 75>>, <<326976, 1016257, 1553076>>>>, <<<<9991279, 9869533, 9660465>>, <<7944397, 7296392, 7000000>>>>, <<<<10000000, 10000000, 10000000>>, <<9986455, 9842664, 9625691>>>>>>,
    <<<<<<0, 0, 50>>, <<299506, 968174, 1500000>>>>, <<<<9985340, 9827673, 9586842>>, <<7831716, 7204448, 6921307>>>>, <<<<10000000, 10000000, 10000000>>, <<9984617, 9831464, 9606949>>>>>>,
    <<<<<<0, 0, 21>>, <<250080, 876653, 1397053>>>>, <<<<9961108, 9708275, 9400000>>, <<7594835, 7015251, 6760524>>>>, <<<<10000000, 10000000, 10000000>>, <<9980221, 9806887, 9566986>>>>>>,
    <<<<<<0, 0, 20>>, <<246471, 869681, 1389100>>>>, <<<<9958142, 9696402, 9382724>>, <<7575464, 7000000, 6747626>>>>, <<<<10000000, 10000000, 10000000>>, <<9979828, 9804813, 9563681>>>>>>,
    <<<<<<0, 0, 5>>, <<187883, 749544, 1249270>>>>, <<<<9854850, 9400000, 8994693>>, <<7207351, 6715549, 6508544>>>>, <<<<10000000, 10000000, 10000000>>, <<9971281, 9763500, 9499673>>>>>>,
    <<<<<<0, 0, 3>>, <<161746, 690740, 1178691>>>>, <<<<9738451, 9167131, 8725490>>, <<7000000, 6559157, 6378154>>>>, <<<<10000000, 10000000, 10000000>>, <<9965479, 9738548, 9462503>>>>>>,
    <<<<<<0, 0, 2>>, <<144710, 650153, 1129038>>>>, <<<<9611129, 8958517, 8500000>>, <<6844554, 6443398, 6282050>>>>, <<<<10000000, 10000000, 10000000>>, <<9960607, 9718996, 9434045>>>>>>,
    <<<<<<0, 0, 1>>, <<127114, 605958, 1074012>>>>, <<<<9407593, 8675799, 8210775>>, <<6662391, 6309134, 6170967>>>>, <<<<10000000, 10000000, 10000000>>, <<9954275, 9695118, 9400000>>>>>>,
    <<<<<<0, 0, 1>>, <<126589, 604600, 1072304>>>>, <<<<9400000, 8666070, 8201091>>, <<6656563, 6304861, 6167438>>>>, <<<<10000000, 10000000, 10000000>>, <<9954060, 9694336, 9398898>>>>>>,
    <<<<<<0, 0, 1>>, <<124818, 600000, 1066512>>>>, <<<<9373614, 8632623, 8167919>>, <<6636719, 6290321, 6155433>>>>, <<<<10000000, 10000000, 10000000>>, <<9953325, 9691666, 9395139>>>>>>,
    <<<<<<0, 0, 1>>, <<118270, 582729, 1044656>>>>, <<<<9264757, 8500000, 8038103>>, <<6560717, 6234771, 6109601>>>>, <<<<10000000, 10000000, 10000000>>, <<9950427, 9681318, 9380651>>>>>>,
    <<<<<<0, 0, 1>>, <<116454, 577865, 1038469>>>>, <<<<9231128, 8460570, 8000000>>, <<6538878, 6218847, 6096474>>>>, <<<<10000000, 10000000, 10000000>>, <<9949570, 9678308, 9376460>>>>>>,
    <<<<<<0, 0, 0>>, <<98614, 528160, 974402>>>>, <<<<8799085, 8000000, 7568629>>, <<6303910, 6048507, 5956318>>>>, <<<<10000000, 10000000, 10000000>>, <<9939621, 9644874, 9330587>>>>>>,
    <<<<<<0, 0, 0>>, <<89882, 502376, 940521>>>>, <<<<8500000, 7715535, 7312233>>, <<6172878, 5954203, 5878913>>>>, <<<<10000000, 10000000, 10000000>>, <<9933456, 9625359, 9304343>>>>>>,
    <<<<<<0, 0, 0>>, <<80643, 473847, 902467>>>>, <<<<8097249, 7360299, 7000000>>, <<6019808, 5844558, 5789057>>>>, <<<<10000000, 10000000, 10000000>>, <<9925645, 9601731, 9273042>>>>>>,
    <<<<<<0, 0, 0>>, <<78718, 467720, 894213>>>>, <<<<8000000, 7278155, 6928841>>, <<5985757, 5820233, 5769141>>>>, <<<<10000000, 10000000, 10000000>>, <<9923814, 9596349, 9265981>>>>>>,
    <<<<<<0, 0, 0>>, <<72680, 448061, 867524>>>>, <<<<7660535, 7000000, 6690303>>, <<5873505, 5740198, 5703652>>>>, <<<<10000000, 10000000, 10000000>>, <<9917523, 9578272, 9242443>>>>>>,
    <<<<<<0, 0, 0>>, <<63136, 415417, 822472>>>>, <<<<7000000, 6487362, 6258549>>, <<5676353, 5600102, 5589148>>>>, <<<<10000000, 10000000, 10000000>>, <<9905472, 9545231, 9200083>>>>>>,
    <<<<<<0, 0, 0>>, <<36167, 308334, 666981>>>>, <<<<4040993, 4362251, 4514415>>, <<4914510, 5061358, 5149527>>>>, <<<<10000000, 10000000, 9999995>>, <<9844425, 9400000, 9022361>>>>>>,
    <<<<<<0, 0, 0>>, <<29229, 275255, 615981>>>>, <<<<3000000, 3595344, 3879635>>, <<4634113, 4862757, 4987382>>>>, <<<<10000000, 10000000, 9999989>>, <<9814738, 9338360, 8950328>>>>>>,
    <<<<<<0, 0, 0>>, <<27237, 265114, 600000>>>>, <<<<2688168, 3355080, 3677780>>, <<4542851, 4797938, 4934412>>>>, <<<<10000000, 10000000, 9999986>>, <<9804051, 9317197, 8925988>>>>>>,
    <<<<<<0, 0, 0>>, <<24423, 250185, 576151>>>>, <<<<2244300, 3000000, 3375696>>, <<4403537, 4698756, 4853296>>>>, <<<<10000000, 10000000, 9999980>>, <<9786666, 9283771, 8887917>>>>>>,
    <<<<<<0, 0, 0>>, <<22869, 241596, 562244>>>>, <<<<2000000, 2796059, 3199716>>, <<4320535, 4639506, 4804796>>>>, <<<<10000000, 10000000, 9999974>>, <<9775656, 9263183, 8864685>>>>>>,
    <<<<<<0, 0, 0>>, <<21173, 231917, 546400>>>>, <<<<1736873, 2567620, 3000000>>, <<4224355, 4570682, 4748413>>>>, <<<<10000000, 10000000, 9999967>>, <<9762247, 9238666, 8837226>>>>>>,
    <<<<<<0, 0, 0>>, <<19613, 222692, 531120>>>>, <<<<1500000, 2352193, 2808720>>, <<4129934, 4502919, 4692845>>>>, <<<<10000000, 10000000, 9999957>>, <<9748368, 9213879, 8809682>>>>>>,
    <<<<<<0, 0, 0>>, <<17129, 207274, 505165>>>>, <<<<1139213, 2000000, 2488494>>, <<3965732, 4384549, 4595633>>>>, <<<<10000000, 9999999, 9999932>>, <<9722412, 9168981, 8760316>>>>>>,
    <<<<<<0, 0, 0>>, <<13696, 184145, 465145>>>>, <<<<692446, 1500000, 2012462>>, <<3702832, 4193366, 4438165>>>>, <<<<10000000, 9999998, 9999861>>, <<9675486, 9091930, 8677053>>>>>>,
    <<<<<<0, 0, 0>>, <<13610, 183531, 464064>>>>, <<<<682258, 1487349, 2000000>>, <<3695569, 4188051, 4433779>>>>, <<<<10000000, 9999998, 9999858>>, <<9674087, 9089704, 8674673>>>>>>,
    <<<<<<0, 0, 0>>, <<12895, 178372, 454932>>>>, <<<<600000, 1382341, 1895605>>, <<3633808, 4142778, 4396390>>>>, <<<<10000000, 9999998, 9999832>>, <<9661947, 9070555, 8654255>>>>>>,
    <<<<<<0, 0, 0>>, <<10286, 158305, 418647>>>>, <<<<338829, 1001899, 1500000>>, <<3381990, 3956588, 4242183>>>>, <<<<10000000, 9999995, 9999671>>, <<9607662, 8988087, 8567419>>>>>>,
    <<<<<<0, 0, 0>>, <<8660, 144582, 393051>>>>, <<<<211789, 771778, 1242744>>, <<3198065, 3818746, 4127504>>>>, <<<<10000000, 9999989, 9999464>>, <<9562551, 8922961, 8500000>>>>>>,
    <<<<<<0, 0, 0>>, <<7393, 133033, 370952>>>>, <<<<133977, 600000, 1037623>>, <<3034986, 3695008, 4024133>>>>, <<<<10000000, 9999979, 9999175>>, <<9518103, 8861331, 8437053>>>>>>,
    <<<<<<0, 0, 0>>, <<7141, 130629, 366280>>>>, <<<<120783, 566925, 996447>>, <<3000000, 3668256, 4001728>>>>, <<<<10000000, 9999976, 9999095>>, <<9507969, 8847594, 8423129>>>>>>,
    <<<<<<0, 0, 0>>, <<5068, 109087, 323207>>>>, <<<<40718, 314471, 655768>>, <<2668865, 3410984, 3785097>>>>, <<<<10000000, 9999914, 9997826>>, <<9400000, 8707462, 8283110>>>>>>,
    <<<<<<0, 0, 0>>, <<4727, 105170, 315114>>>>, <<<<32214, 277268, 600000>>, <<2604914, 3360350, 3742194>>>>, <<<<10000000, 9999889, 9997425>>, <<9376325, 8678070, 8254176>>>>>>,
    <<<<<<0, 0, 0>>, <<3143, 84927, 271732>>>>, <<<<7494, 127446, 347687>>, <<2252821, 3074964, 3498471>>>>, <<<<10000000, 9999564, 9993426>>, <<9225675, 8500000, 8081709>>>>>>,
    <<<<<<0, 0, 0>>, <<2811, 80099, 260945>>>>, <<<<4900, 101793, 297191>>, <<2162864, 3000000, 3433859>>>>, <<<<10000000, 9999380, 9991630>>, <<9180741, 8449453, 8033558>>>>>>,
    <<<<<<0, 0, 0>>, <<2601, 76918, 253731>>>>, <<<<3628, 86870, 266101>>, <<2102182, 2948895, 3389656>>>>, <<<<10000000, 9999212, 9990143>>, <<9148695, 8414020, 8000000>>>>>>,
    <<<<<<0, 0, 0>>, <<2274, 71697, 241693>>>>, <<<<2129, 65618, 218912>>, <<2000000, 2861792, 3314012>>>>, <<<<9999999, 9998821, 9987001>>, <<9091287, 8351731, 7941374>>>>>>,
    <<<<<<0, 0, 0>>, <<1265, 52811, 195690>>>>, <<<<177, 17885, 89041>>, <<1599525, 2505400, 3000000>>>>, <<<<9999976, 9994114, 9960703>>, <<8814719, 8069198, 7680709>>>>>>,
    <<<<<<0, 0, 0>>, <<1102, 49138, 186197>>>>, <<<<95, 12927, 71197>>, <<1515096, 2426600, 2929467>>>>, <<<<9999953, 9991679, 9950093>>, <<8743195, 8000000, 7618024>>>>>>,
    <<<<<<0, 0, 0>>, <<1074, 48492, 184506>>>>, <<<<84, 12171, 68303>>, <<1500000, 2412353, 2916667>>>>, <<<<9999947, 9991145, 9947900>>, <<8729811, 7987201, 7606474>>>>>>,
    <<<<<<0, 0, 0>>, <<709, 39064, 158969>>>>, <<<<12, 4405, 33986>>, <<1270189, 2188777, 2713745>>>>, <<<<9999668, 9976838, 9898569>>, <<8500000, 7773887, 7415877>>>>>>,
    <<<<<<0, 0, 0>>, <<485, 32084, 138828>>>>, <<<<2, 1663, 17447>>, <<1087106, 2000000, 2539057>>>>, <<<<9998512, 9949006, 9824264>>, <<8273170, 7573400, 7239645>>>>>>,
    <<<<<<0, 0, 0>>, <<317, 25725, 119271>>>>, <<<<0, 529, 7983>>, <<908713, 1804262, 2354129>>>>, <<<<9993351, 9887119, 9693353>>, <<8000000, 7342280, 7039423>>>>>>,
    <<<<<<0, 0, 0>>, <<292, 24638, 115783>>>>, <<<<0, 420, 6824>>, <<876918, 1767892, 2319291>>>>, <<<<9991279, 9869533, 9660465>>, <<7944397, 7296392, 7000000>>>>>>,
    <<<<<<0, 0, 0>>, <<176, 18978, 96793>>>>, <<<<0, 100, 2575>>, <<704580, 1561037, 2117914>>>>, <<<<9961108, 9708275, 9400000>>, <<7594835, 7015251, 6760524>>>>>>,
    <<<<<<0, 0, 0>>, <<171, 18714, 95868>>>>, <<<<0, 93, 2440>>, <<696238, 1550547, 2107544>>>>, <<<<9958142, 9696402, 9382724>>, <<7575464, 7000000, 6747626>>>>>>,
    <<<<<<0, 0, 0>>, <<150, 17474, 91462>>>>, <<<<0, 63, 1874>>, <<656595, 1500000, 2057340>>>>, <<<<9940553, 9632544, 9292740>>, <<7479682, 6925036, 6684351>>>>>>,
    <<<<<<0, 0, 0>>, <<128, 16128, 86574>>>>, <<<<0, 40, 1371>>, <<612826, 1442755, 2000000>>>>, <<<<9912187, 9545126, 9176098>>, <<7366118, 6837058, 6610344>>>>>>,
    <<<<<<0, 0, 0>>, <<123, 15739, 85136>>>>, <<<<0, 34, 1246>>, <<600000, 1425672, 1982785>>>>, <<<<9901496, 9515504, 9137968>>, <<7331135, 6810141, 6587753>>>>>>,
    <<<<<<0, 0, 0>>, <<104, 14448, 80286>>>>, <<<<0, 21, 887>>, <<556919, 1367185, 1923467>>>>, <<<<9854850, 9400000, 8994693>>, <<7207351, 6715549, 6508544>>>>>>,
    <<<<<<0, 0, 0>>, <<79, 12551, 72906>>>>, <<<<0, 9, 503>>, <<492031, 1275496, 1829226>>>>, <<<<9738451, 9167131, 8725490>>, <<7000000, 6559157, 6378154>>>>>>,
    <<<<<<0, 0, 0>>, <<65, 11314, 67909>>>>, <<<<0, 5, 329>>, <<448638, 1211395, 1762358>>>>, <<<<9611129, 8958517, 8500000>>, <<6844554, 6443398, 6282050>>>>>>,
    <<<<<<0, 0, 0>>, <<51, 9997, 62395>>>>, <<<<0, 2, 196>>, <<401386, 1138602, 1685354>>>>, <<<<9400000, 8666070, 8201091>>, <<6656563, 6304861, 6167438>>>>>>,
    <<<<<<0, 0, 0>>, <<45, 9391, 59784>>>>, <<<<0, 2, 151>>, <<379271, 1103315, 1647586>>>>, <<<<9264757, 8500000, 8038103>>, <<6560717, 6234771, 6109601>>>>>>,
    <<<<<<0, 0, 0>>, <<44, 9259, 59206>>>>, <<<<0, 1, 142>>, <<374405, 1095437, 1639113>>>>, <<<<9231128, 8460570, 8000000>>, <<6538878, 6218847, 6096474>>>>>>,
    <<<<<<0, 0, 0>>, <<33, 7955, 53371>>>>, <<<<0, 1, 74>>, <<325813, 1014256, 1550881>>>>, <<<<8799085, 8000000, 7568629>>, <<6303910, 6048507, 5956318>>>>>>,
    <<<<<<0, 0, 0>>, <<28, 7314, 50394>>>>, <<<<0, 0, 51>>, <<301451, 971639, 1503847>>>>, <<<<8500000, 7715535, 7312233>>, <<6172878, 5954203, 5878913>>>>>>,
    <<<<<<0, 0, 0>>, <<27, 7264, 50154>>>>, <<<<0, 0, 50>>, <<299506, 968174, 1500000>>>>, <<<<8473215, 7691034, 7290437>>, <<6161979, 5946379, 5872496>>>>>>,
    <<<<<<0, 0, 0>>, <<23, 6633, 47138>>>>, <<<<0, 0, 33>>, <<275205, 924054, 1450701>>>>, <<<<8097249, 7360299, 7000000>>, <<6019808, 5844558, 5789057>>>>>>,
    <<<<<<0, 0, 0>>, <<22, 6491, 46444>>>>, <<<<0, 0, 30>>, <<269669, 913774, 1439128>>>>, <<<<8000000, 7278155, 6928841>>, <<5985757, 5820233, 5769141>>>>>>,
    <<<<<<0, 0, 0>>, <<19, 6043, 44232>>>>, <<<<0, 0, 22>>, <<252152, 880637, 1401591>>>>, <<<<7660535, 7000000, 6690303>>, <<5873505, 5740198, 5703652>>>>>>,
    <<<<<<0, 0, 0>>, <<15, 5331, 40602>>>>, <<<<0, 0, 13>>, <<223922, 825080, 1337818>>>>, <<<<7000000, 6487362, 6258549>>, <<5676353, 5600102, 5589148>>>>>>,
    <<<<<<0, 0, 0>>, <<5, 2921, 26940>>>>, <<<<0, 0, 1>>, <<124818, 600000, 1066512>>>>, <<<<3384257, 3883612, 4119675>>, <<4741132, 4938642, 5049360>>>>>>,
    <<<<<<0, 0, 0>>, <<4, 2722, 25678>>>>, <<<<0, 0, 1>>, <<116380, 577667, 1038217>>>>, <<<<3000000, 3595344, 3879635>>, <<4634113, 4862757, 4987382>>>>>>,
    <<<<<<0, 0, 0>>, <<3, 2335, 23127>>>>, <<<<0, 0, 0>>, <<99799, 531580, 978862>>>>, <<<<2244300, 3000000, 3375696>>, <<4403537, 4698756, 4853296>>>>>>,
    <<<<<<0, 0, 0>>, <<3, 2208, 22262>>>>, <<<<0, 0, 0>>, <<94327, 515636, 958003>>>>, <<<<2000000, 2796059, 3199716>>, <<4320535, 4639506, 4804796>>>>>>,
    <<<<<<0, 0, 0>>, <<2, 2068, 21293>>>>, <<<<0, 0, 0>>, <<88294, 497569, 934151>>>>, <<<<1736873, 2567620, 3000000>>, <<4224355, 4570682, 4748413>>>>>>,
    <<<<<<0, 0, 0>>, <<2, 1938, 20374>>>>, <<<<0, 0, 0>>, <<82676, 480246, 911056>>>>, <<<<1500000, 2352193, 2808720>>, <<4129934, 4502919, 4692845>>>>>>,
    <<<<<<0, 0, 0>>, <<2, 1729, 18851>>>>, <<<<0, 0, 0>>, <<73587, 451060, 871616>>>>, <<<<1139213, 2000000, 2488494>>, <<3965732, 4384549, 4595633>>>>>>,
    <<<<<<0, 0, 0>>, <<1, 1433, 16595>>>>, <<<<0, 0, 0>>, <<60685, 406682, 810252>>>>, <<<<692446, 1500000, 2012462>>, <<3702832, 4193366, 4438165>>>>>>,
    <<<<<<0, 0, 0>>, <<1, 1426, 16535>>>>, <<<<0, 0, 0>>, <<60356, 405496, 808586>>>>, <<<<682258, 1487349, 2000000>>, <<3695569, 4188051, 4433779>>>>>>,
    <<<<<<0, 0, 0>>, <<1, 1363, 16037>>>>, <<<<0, 0, 0>>, <<57608, 395487, 794481>>>>, <<<<600000, 1382341, 1895605>>, <<3633808, 4142778, 4396390>>>>>>,
    <<<<<<0, 0, 0>>, <<1, 1130, 14116>>>>, <<<<0, 0, 0>>, <<47376, 356162, 738054>>>>, <<<<338829, 1001899, 1500000>>, <<3381990, 3956588, 4242183>>>>>>,
    <<<<<<0, 0, 0>>, <<0, 861, 11737>>>>, <<<<0, 0, 0>>, <<35577, 305640, 662888>>>>, <<<<133977, 600000, 1037623>>, <<3034986, 3695008, 4024133>>>>>>,
    <<<<<<0, 0, 0>>, <<0, 837, 11513>>>>, <<<<0, 0, 0>>, <<34521, 300768, 655461>>>>, <<<<120783, 566925, 996447>>, <<3000000, 3668256, 4001728>>>>>>,
    <<<<<<0, 0, 0>>, <<0, 671, 9904>>>>, <<<<0, 0, 0>>, <<27237, 265114, 600000>>>>, <<<<51417, 356595, 716739>>, <<2734934, 3462950, 3829033>>>>>>,
    <<<<<<0, 0, 0>>, <<0, 598, 9168>>>>, <<<<0, 0, 0>>, <<24097, 248404, 573279>>>>, <<<<32214, 277268, 600000>>, <<2604914, 3360350, 3742194>>>>>>,
    <<<<<<0, 0, 0>>, <<0, 394, 6908>>>>, <<<<0, 0, 0>>, <<15291, 195187, 484423>>>>, <<<<4900, 101793, 297191>>, <<2162864, 3000000, 3433859>>>>>>,
    <<<<<<0, 0, 0>>, <<0, 333, 6162>>>>, <<<<0, 0, 0>>, <<12695, 176903, 452319>>>>, <<<<2129, 65618, 218912>>, <<2000000, 2861792, 3314012>>>>>>,
    <<<<<<0, 0, 0>>, <<0, 210, 4507>>>>, <<<<0, 0, 0>>, <<7578, 134770, 374309>>>>, <<<<177, 17885, 89041>>, <<1599525, 2505400, 3000000>>>>>>,
    <<<<<<0, 0, 0>>, <<0, 185, 4133>>>>, <<<<0, 0, 0>>, <<6557, 124895, 355036>>>>, <<<<84, 12171, 68303>>, <<1500000, 2412353, 2916667>>>>>>,
    <<<<<<0, 0, 0>>, <<0, 100, 2726>>>>, <<<<0, 0, 0>>, <<3243, 86325, 274821>>>>, <<<<2, 1663, 17447>>, <<1087106, 2000000, 2539057>>>>>>,
    <<<<<<0, 0, 0>>, <<0, 41, 1493>>>>, <<<<0, 0, 0>>, <<1139, 50000, 188445>>>>, <<<<0, 63, 1874>>, <<656595, 1500000, 2057340>>>>>>,
    <<<<<<0, 0, 0>>, <<0, 36, 1380>>>>, <<<<0, 0, 0>>, <<992, 46517, 179292>>>>, <<<<0, 40, 1371>>, <<612826, 1442755, 2000000>>>>>>,
    <<<<<<0, 0, 0>>, <<0, 35, 1347>>>>, <<<<0, 0, 0>>, <<951, 45503, 176589>>>>, <<<<0, 34, 1246>>, <<600000, 1425672, 1982785>>>>>>,
    <<<<<<0, 0, 0>>, <<0, 12, 636>>>>, <<<<0, 0, 0>>, <<247, 22607, 109141>>>>, <<<<0, 0, 50>>, <<299506, 968174, 1500000>>>>>>,
    <<<<<<0, 0, 0>>, <<0, 3, 268>>>>, <<<<0, 0, 0>>, <<50, 9868, 61844>>>>, <<<<0, 0, 1>>, <<124818, 600000, 1066512>>>>>>,
    <<<<<<0, 0, 0>>, <<0, 0, 68>>>>, <<<<0, 0, 0>>, <<4, 2563, 24642>>>>, <<<<0, 0, 0>>, <<27237, 265114, 600000>>>>>> >>
\* BsmPutTab[strike][spot][vol][T]: the closed form, in 1e-5 dollars
BsmPutTab == <<
    <<<<<<-1000767, -1001534, -1002308>>, <<0, 0, 0>>, <<0, 0, 7>>, <<0, 0, 16>>, <<14702, 57305, 104346>>, <<25954, 85025, 145183>>, <<950822, 1493922, 1903862>>, <<1199203, 1839452, 2315484>>>>, <<<<-3000767, -3001534, -3002301>>, <<0, 0, 0>>, <<0, 0, 0>>, <<0, 0, 0>>, <<2, 361, 2735>>, <<17, 1407, 7456>>, <<502264, 1012667, 1427173>>, <<727998, 1360914, 1856598>>>>, <<<<-5000767, -5001534, -5002301>>, <<0, 0, 0>>, <<0, 0, 0>>, <<0, 0, 0>>, <<0, 1, 32>>, <<0, 9, 216>>, <<266217, 698573, 1089430>>, <<447868, 1025411, 1513717>>>>>>,
    <<<<<<-900778, -901557, -902369>>, <<0, 0, 0>>, <<0, 1, 35>>, <<0, 3, 66>>, <<21817, 72939, 125497>>, <<35990, 104174, 169828>>, <<999499, 1549596, 1963814>>, <<1251355, 1898772, 2379309>>>>, <<<<-2900778, -2901556, -2902334>>, <<0, 0, 0>>, <<0, 0, 0>>, <<0, 0, 0>>, <<3, 552, 3702>>, <<32, 1981, 9535>>, <<532878, 1055048, 1476325>>, <<764525, 1409085, 1911528>>>>, <<<<-4900778, -4901556, -4902334>>, <<0, 0, 0>>, <<0, 0, 0>>, <<0, 0, 0>>, <<0, 1, 48>>, <<0, 14, 300>>, <<284788, 730642, 1129767>>, <<473013, 1064538, 1561165>>>>>>,
    <<<<<<-800789, -801588, -802509>>, <<0, 0, 0>>, <<0, 10, 142>>, <<0, 21, 239>>, <<31508, 91592, 149563>>, <<48876, 126301, 197239>>, <<1049367, 1606103, 2024431>>, <<1304507, 1958781, 2443677>>>>, <<<<-2800789, -2801578, -2802367>>, <<0, 0, 0>>, <<0, 0, 0>>, <<0, 0, 0>>, <<7, 829, 4951>>, <<58, 2749, 12081>>, <<564549, 1098258, 1526165>>, <<802001, 1457965, 1967031>>>>, <<<<-4800789, -4801578, -4802367>>, <<0, 0, 0>>, <<0, 0, 0>>, <<0, 0, 0>>, <<0, 2, 72>>, <<0, 22, 412>>, <<304170, 763470, 1170773>>, <<498967, 1104350, 1609191>>>>>>,
    <<<<<<-700800, -701660, -702899>>, <<0, 0, 0>>, <<0, 60, 499>>, <<1, 107, 760>>, <<44353, 113551, 176707>>, <<65078, 151607, 227522>>, <<1100412, 1663429, 2085702>>, <<1358645, 2019465, 2508577>>>>, <<<<-2700800, -2701600, -2702400>>, <<0, 0, 0>>, <<0, 0, 0>>, <<0, 0, 0>>, <<14, 1224, 6545>>, <<102, 3765, 15168>>, <<597277, 1142289, 1576684>>, <<840421, 1507544, 2023099>>>>, <<<<-4700800, -4701600, -4702400>>, <<0, 0, 0>>, <<0, 0, 0>>, <<0, 0, 0>>, <<0, 3, 105>>, <<0, 34, 559>>, <<324371, 797056, 1212442>>, <<525730, 1144839, 1657788>>>>>>,
    <<<<<<-600815, -601915, -603964>>, <<0, 0, 0>>, <<4, 293, 1531>>, <<8, 458, 2137>>, <<60945, 139078, 207066>>, <<85054, 180269, 260762>>, <<1152615, 1721559, 2147614>>, <<1413752, 2080813, 2573999>>>>, <<<<-2600811, -2601622, -2602432>>, <<0, 0, 0>>, <<0, 0, 0>>, <<0, 0, 0>>, <<29, 1776, 8554>>, <<175, 5090, 18880>>, <<631061, 1187132, 1627872>>, <<879778, 1557813, 2079724>>>>, <<<<-4600811, -4601622, -4602432>>, <<0, 0, 0>>, <<0, 0, 0>>, <<0, 0, 0>>, <<0, 5, 152>>, <<0, 52, 752>>, <<345402, 831394, 1254767>>, <<553305, 1186001, 1706948>>>>>>,
    <<<<<<-500867, -502806, -506589>>, <<0, 0, 0>>, <<45, 1163, 4124>>, <<80, 1632, 5345>>, <<81864, 168400, 240755>>, <<109225, 212436, 297025>>, <<1205960, 1780480, 2210154>>, <<1469812, 2142812, 2639933>>>>, <<<<-2500822, -2501644, -2502465>>, <<0, 0, 0>>, <<0, 0, 0>>, <<0, 0, 0>>, <<54, 2538, 11062>>, <<292, 6797, 23306>>, <<665900, 1232779, 1679721>>, <<920067, 1608762, 2136895>>>>, <<<<-4500822, -4501644, -4502465>>, <<0, 0, 0>>, <<0, 0, 0>>, <<0, 0, 0>>, <<0, 9, 217>>, <<0, 78, 1001>>, <<367270, 866481, 1297741>>, <<581692, 1227827, 1756664>>>>>>,
    <<<<<<-401208, -405495, -412339>>, <<0, 0, 0>>, <<376, 3829, 9840>>, <<561, 4920, 11989>>, <<107642, 201706, 277858>>, <<137966, 248225, 336357>>, <<1260428, 1840178, 2273313>>, <<1526808, 2205450, 2706370>>>>, <<<<-2400833, -2401666, -2402498>>, <<0, 0, 0>>, <<0, 0, 0>>, <<0, 0, 0>>, <<101, 3570, 14159>>, <<478, 8968, 28540>>, <<701790, 1279219, 1732220>>, <<961279, 1660383, 2194606>>>>, <<<<-4400833, -4401666, -4402498>>, <<0, 0, 0>>, <<0, 0, 0>>, <<0, 0, 0>>, <<0, 15, 307>>, <<0, 115, 1321>>, <<389981, 902313, 1341358>>, <<610890, 1270312, 1806927>>>>>>,
    <<<<<<-303014, -312305, -323526>>, <<0, 0, 0>>, <<2170, 10618, 20995>>, <<2835, 12695, 24309>>, <<138732, 239137, 318435>>, <<171582, 287718, 378785>>, <<1316002, 1900638, 2337077>>, <<1584726, 2268715, 2773299>>>>, <<<<-2300844, -2301687, -2302531>>, <<0, 0, 0>>, <<0, 0, 0>>, <<0, 0, 0>>, <<181, 4948, 17945>>, <<764, 11698, 34684>>, <<738730, 1326445, 1785361>>, <<1003408, 1712665, 2252846>>>>, <<<<-4300844, -4301687, -4302531>>, <<0, 0, 0>>, <<0, 0, 0>>, <<0, 0, 0>>, <<0, 24, 428>>, <<0, 168, 1726>>, <<413544, 938885, 1385610>>, <<640901, 1313448, 1857732>>>>>>,
    <<<<<<-209861, -226856, -242985>>, <<0, 0, 0>>, <<9006, 25146, 40421>>, <<10640, 28420, 44923>>, <<175486, 280786, 362513>>, <<210297, 330962, 424314>>, <<1372662, 1961846, 2401436>>, <<1643548, 2332596, 2840711>>>>, <<<<-2200855, -2201709, -2202564>>, <<0, 0, 0>>, <<0, 0, 0>>, <<0, 0, 0>>, <<316, 6762, 22529>>, <<1194, 15093, 41842>>, <<776715, 1374448, 1839134>>, <<1046446, 1765600, 2311608>>>>, <<<<-4200855, -4201709, -4202564>>, <<0, 0, 0>>, <<0, 0, 0>>, <<0, 0, 0>>, <<0, 38, 590>>, <<1, 242, 2237>>, <<437963, 976193, 1430492>>, <<671723, 1357230, 1909070>>>>>>,
    <<<<<<-128664, -153397, -173495>>, <<0, 0, 0>>, <<27798, 51665, 70898>>, <<30585, 55960, 76310>>, <<218129, 326696, 410095>>, <<254245, 377971, 472932>>, <<1430391, 2023789, 2466379>>, <<1703258, 2397081, 2908599>>>>, <<<<-2100866, -2101731, -2102597>>, <<0, 0, 0>>, <<0, 0, 0>>, <<0, 0, 0>>, <<536, 9115, 28029>>, <<1828, 19269, 50122>>, <<815740, 1423217, 1893530>>, <<1090385, 1819179, 2370883>>>>, <<<<-4100866, -4101731, -4102597>>, <<0, 0, 0>>, <<0, 0, 0>>, <<0, 0, 0>>, <<0, 59, 806>>, <<1, 344, 2873>>, <<463245, 1014231, 1475995>>, <<703354, 1401650, 1960935>>>>>>,
    <<<<<<-1, -172, -1094>>, <<699047, 698093, 697140>>, <<699048, 698266, 698235>>, <<699050, 698376, 698717>>, <<757190, 837596, 909008>>, <<781865, 881036, 966204>>, <<1928347, 2544207, 3005679>>, <<2210999, 2933413, 3467754>>>>, <<<<-1300953, -1301907, -1302864>>, <<0, 0, 0>>, <<0, 0, 5>>, <<0, 0, 11>>, <<15569, 64785, 120828>>, <<28292, 97687, 170093>>, <<1164612, 1839862, 2350087>>, <<1473282, 2269899, 2862634>>>>, <<<<-3300953, -3301907, -3302860>>, <<0, 0, 0>>, <<0, 0, 0>>, <<0, 0, 0>>, <<12, 1211, 6841>>, <<92, 3867, 16262>>, <<696937, 1344206, 1861608>>, <<985312, 1779201, 2393994>>>>>>,
    <<<<<<0, -10, -149>>, <<899025, 898050, 897074>>, <<899025, 898060, 897223>>, <<899025, 898070, 897326>>, <<933162, 998614, 1062200>>, <<952210, 1036997, 1115068>>, <<2062161, 2680754, 3145628>>, <<2345709, 3072800, 3611711>>>>, <<<<-1100975, -1101953, -1102984>>, <<0, 0, 0>>, <<0, 3, 58>>, <<0, 6, 107>>, <<29414, 95523, 162589>>, <<47905, 135443, 218856>>, <<1261722, 1951039, 2469856>>, <<1577382, 2388399, 2990175>>>>, <<<<-3100975, -3101950, -3102926>>, <<0, 0, 0>>, <<0, 0, 0>>, <<0, 0, 0>>, <<38, 2265, 10723>>, <<229, 6415, 23479>>, <<764153, 1433621, 1963762>>, <<1063714, 1879509, 2507058>>>>>>,
    <<<<<<0, -2, -49>>, <<999014, 998028, 997042>>, <<999014, 998030, 997091>>, <<999014, 998032, 997133>>, <<1024763, 1082836, 1142229>>, <<1041146, 1118529, 1192692>>, <<2130360, 2749928, 3216320>>, <<2414147, 3143235, 3684274>>>>, <<<<-1000986, -1001985, -1003136>>, <<0, 0, 0>>, <<0, 13, 177>>, <<0, 26, 298>>, <<39385, 114490, 186954>>, <<61095, 157876, 246549>>, <<1311709, 2007629, 2530539>>, <<1630634, 2448476, 3054597>>>>, <<<<-3000986, -3001972, -3002958>>, <<0, 0, 0>>, <<0, 0, 0>>, <<0, 0, 0>>, <<65, 3045, 13275>>, <<351, 8156, 27967>>, <<799080, 1479334, 2015665>>, <<1104080, 1930515, 2564275>>>>>>,
    <<<<<<0, 0, -15>>, <<1099003, 1098006, 1097009>>, <<1099003, 1098006, 1097024>>, <<1099003, 1098007, 1097040>>, <<1118225, 1169211, 1224328>>, <<1132128, 1202176, 1272275>>, <<2199395, 2819685, 3287478>>, <<2483286, 3214153, 3757217>>>>, <<<<-900997, -902048, -903482>>, <<0, 0, 0>>, <<0, 54, 491>>, <<0, 98, 761>>, <<51879, 136102, 213781>>, <<76938, 182853, 276539>>, <<1362637, 2064874, 2591745>>, <<1684674, 2509094, 3119444>>>>, <<<<-2900997, -2901994, -2902991>>, <<0, 0, 0>>, <<0, 0, 0>>, <<0, 0, 0>>, <<109, 4051, 16318>>, <<529, 10284, 33129>>, <<834883, 1525709, 2068111>>, <<1145216, 1982080, 2621940>>>>>>,
    <<<<<<0, 0, -4>>, <<1198992, 1197984, 1196976>>, <<1198992, 1197984, 1196980>>, <<1198992, 1197984, 1196986>>, <<1213197, 1257508, 1308336>>, <<1224842, 1287754, 1353691>>, <<2269249, 2890015, 3359094>>, <<2553112, 3285544, 3830533>>>>, <<<<-801010, -802216, -804267>>, <<0, 0, 0>>, <<2, 200, 1242>>, <<4, 328, 1792>>, <<67276, 160529, 243161>>, <<95728, 210489, 308883>>, <<1414495, 2122764, 2653466>>, <<1739492, 2570244, 3184711>>>>, <<<<-2801008, -2802016, -2803024>>, <<0, 0, 0>>, <<0, 0, 0>>, <<0, 0, 0>>, <<179, 5334, 19920>>, <<786, 12863, 39035>>, <<871561, 1572740, 2121092>>, <<1187117, 2034198, 2680049>>>>>>,
    <<<<<<0, 0, -1>>, <<1298981, 1297962, 1296943>>, <<1298981, 1297962, 1296944>>, <<1298981, 1297962, 1296946>>, <<1309374, 1347508, 1394096>>, <<1319006, 1375084, 1436815>>, <<2339901, 2960907, 3431159>>, <<2623612, 3357400, 3904216>>>>, <<<<-701032, -702689, -705945>>, <<0, 0, 0>>, <<13, 650, 2888>>, <<26, 972, 3907>>, <<85953, 187925, 275171>>, <<117745, 240885, 343627>>, <<1467271, 2181292, 2715694>>, <<1795078, 2631919, 3250390>>>>, <<<<-2701019, -2702038, -2703057>>, <<0, 0, 0>>, <<0, 0, 0>>, <<0, 0, 0>>, <<288, 6953, 24157>>, <<1149, 15966, 45756>>, <<909111, 1620420, 2174603>>, <<1229777, 2086862, 2738595>>>>>>,
    <<<<<<0, 0, 0>>, <<1398970, 1397940, 1396910>>, <<1398970, 1397940, 1396910>>, <<1398970, 1397940, 1396911>>, <<1406499, 1439008, 1481457>>, <<1414371, 1463994, 1521528>>, <<2411333, 3032350, 3503666>>, <<2694770, 3429713, 3978259>>>>, <<<<-601119, -603931, -609282>>, <<0, 0, 0>>, <<89, 1871, 6192>>, <<152, 2578, 7920>>, <<108269, 218422, 309875>>, <<143246, 274127, 380806>>, <<1520955, 2240448, 2778421>>, <<1851421, 2694111, 3316476>>>>, <<<<-2601030, -2602060, -2603090>>, <<0, 0, 0>>, <<0, 0, 0>>, <<0, 0, 0>>, <<454, 8977, 29106>>, <<1656, 19670, 53367>>, <<947529, 1668743, 2228637>>, <<1273192, 2140066, 2797572>>>>>>,
    <<<<<<0, 0, 0>>, <<1498959, 1497918, 1496877>>, <<1498959, 1497918, 1496877>>, <<1498959, 1497918, 1496877>>, <<1504361, 1531818, 1570272>>, <<1510720, 1554325, 1607710>>, <<2483529, 3104332, 3576605>>, <<2766573, 3502472, 4052656>>>>, <<<<-501511, -506869, -515423>>, <<0, 0, 0>>, <<470, 4787, 12300>>, <<701, 6150, 14987>>, <<134552, 252133, 347323>>, <<172458, 310281, 420446>>, <<1575535, 2300222, 2841641>>, <<1908510, 2756812, 3382962>>>>, <<<<-2501041, -2502082, -2503123>>, <<0, 0, 0>>, <<0, 0, 0>>, <<0, 0, 0>>, <<701, 11481, 34852>>, <<2350, 24060, 61943>>, <<986813, 1717703, 2283188>>, <<1317355, 2193804, 2856974>>>>>>,
    <<<<<<0, 0, 0>>, <<1598948, 1597896, 1596844>>, <<1598948, 1597896, 1596844>>, <<1598948, 1597896, 1596844>>, <<1602787, 1625766, 1660405>>, <<1607868, 1645924, 1695248>>, <<2556468, 3176844, 3649970>>, <<2839008, 3575671, 4127401>>>>, <<<<-403015, -413070, -425901>>, <<0, 0, 0>>, <<1963, 10966, 22746>>, <<2627, 13284, 26584>>, <<165088, 289144, 387550>>, <<205571, 349400, 462564>>, <<1631000, 2360607, 2905345>>, <<1966337, 2820016, 3449842>>>>, <<<<-2401052, -2402104, -2403156>>, <<0, 0, 0>>, <<0, 0, 0>>, <<0, 0, 0>>, <<1064, 14553, 41481>>, <<3290, 29224, 71563>>, <<1026959, 1767292, 2338249>>, <<1362260, 2248069, 2916797>>>>>>,
    <<<<<<0, 0, 0>>, <<1698937, 1697874, 1696811>>, <<1698937, 1697874, 1696811>>, <<1698937, 1697874, 1696811>>, <<1701641, 1720695, 1751725>>, <<1705656, 1738651, 1784034>>, <<2630134, 3249875, 3723751>>, <<2912060, 3649302, 4202487>>>>, <<<<-307678, -324793, -342526>>, <<0, 0, 0>>, <<6615, 22667, 39338>>, <<8106, 26156, 44391>>, <<200109, 329520, 430576>>, <<242736, 391516, 507163>>, <<1687336, 2421592, 2969527>>, <<2024889, 2883713, 3517111>>>>, <<<<-2301063, -2302126, -2303189>>, <<0, 0, 0>>, <<0, 0, 0>>, <<0, 0, 0>>, <<1587, 18288, 49086>>, <<4543, 35260, 82305>>, <<1067962, 1817506, 2393816>>, <<1407903, 2302856, 2977034>>>>>>,
    <<<<<<0, 0, 0>>, <<1798926, 1797852, 1796779>>, <<1798926, 1797852, 1796779>>, <<1798926, 1797852, 1796779>>, <<1800813, 1816467, 1844112>>, <<1803953, 1832376, 1873963>>, <<2704510, 3323415, 3797943>>, <<2985716, 3723356, 4277909>>>>, <<<<-219344, -244755, -267158>>, <<0, 0, 0>>, <<18270, 42608, 63936>>, <<20911, 47268, 70081>>, <<239785, 373297, 476408>>, <<284055, 436643, 554240>>, <<1744533, 2483170, 3034180>>, <<2084157, 2947898, 3584762>>>>, <<<<-2201074, -2202148, -2203221>>, <<0, 0, 0>>, <<0, 0, 0>>, <<0, 0, 0>>, <<2327, 22788, 57760>>, <<6193, 42267, 94245>>, <<1109818, 1868336, 2449881>>, <<1454276, 2358157, 3037681>>>>>>,
    <<<<<<0, 0, 0>>, <<1898915, 1897830, 1896746>>, <<1898915, 1897830, 1896746>>, <<1898915, 1897830, 1896746>>, <<1900220, 1912956, 1937453>>, <<1902652, 1926979, 1964938>>, <<2779578, 3397453, 3872536>>, <<3059964, 3797825, 4353661>>>>, <<<<-143242, -175599, -201398>>, <<0, 0, 0>>, <<42157, 73429, 98144>>, <<45871, 78977, 105064>>, <<284218, 420486, 525038>>, <<329585, 484779, 603780>>, <<1802579, 2545331, 3099296>>, <<2144131, 3012562, 3652790>>>>, <<<<-2101085, -2102170, -2103254>>, <<0, 0, 0>>, <<0, 0, 0>>, <<0, 0, 0>>, <<3356, 28165, 67599>>, <<8335, 50349, 107464>>, <<1152521, 1919777, 2506438>>, <<1501373, 2413968, 3098731>>>>>>,
    <<<<<<0, 0, 0>>, <<2398860, 2397721, 2396581>>, <<2398860, 2397721, 2396581>>, <<2398860, 2397721, 2396581>>, <<2399042, 2402795, 2415125>>, <<2399633, 2409748, 2432460>>, <<3164718, 3774784, 4251283>>, <<3439633, 4176140, 4737170>>>>, <<<<-2563, -13250, -26782>>, <<398860, 397721, 396581>>, <<401424, 410971, 423363>>, <<402233, 413607, 427628>>, <<576561, 706316, 808964>>, <<619084, 769354, 887336>>, <<2105097, 2864594, 3431591>>, <<2454223, 3342836, 3998387>>>>, <<<<-1601140, -1602279, -1603422>>, <<0, 0, 0>>, <<0, 0, 4>>, <<0, 0, 8>>, <<16684, 72612, 137665>>, <<30927, 110705, 195349>>, <<1378563, 2185915, 2796404>>, <<1747498, 2700440, 3409860>>>>>>,
    <<<<<<0, 0, 0>>, <<2698827, 2697655, 2696483>>, <<2698827, 2697655, 2696483>>, <<2698827, 2697655, 2696483>>, <<2698878, 2700185, 2707776>>, <<2699108, 2704523, 2720476>>, <<3403068, 4006562, 4482910>>, <<3673742, 4407648, 4970885>>>>, <<<<-36, -1197, -4636>>, <<698827, 697655, 696483>>, <<698864, 698852, 701119>>, <<698895, 699370, 702569>>, <<801702, 914545, 1009737>>, <<837373, 972702, 1084372>>, <<2295994, 3062616, 3636105>>, <<2648090, 3546316, 4209920>>>>, <<<<-1301173, -1302349, -1303602>>, <<0, 0, 0>>, <<0, 4, 85>>, <<0, 9, 154>>, <<37100, 118210, 199780>>, <<59918, 166813, 267978>>, <<1523985, 2352509, 2975920>>, <<1903443, 2878049, 3601058>>>>>>,
    <<<<<<0, 0, 0>>, <<2798817, 2797633, 2796450>>, <<2798817, 2797633, 2796450>>, <<2798817, 2797633, 2796450>>, <<2798849, 2799627, 2805987>>, <<2799014, 2803305, 2817377>>, <<3483639, 4084665, 4560810>>, <<3752761, 4485529, 5049361>>>>, <<<<-6, -462, -2350>>, <<798817, 797633, 796450>>, <<798823, 798095, 798800>>, <<798830, 798347, 799697>>, <<883383, 989315, 1081236>>, <<916332, 1045341, 1154151>>, <<2361116, 3129652, 3705094>>, <<2713954, 3614990, 4281097>>>>, <<<<-1201184, -1202382, -1203763>>, <<0, 0, 0>>, <<0, 15, 213>>, <<0, 31, 358>>, <<47262, 137388, 224345>>, <<73314, 189451, 295859>>, <<1574051, 2409154, 3036647>>, <<1956761, 2938172, 3665516>>>>>>,
    <<<<<<0, 0, 0>>, <<2898806, 2897611, 2896417>>, <<2898806, 2897611, 2896417>>, <<2898806, 2897611, 2896417>>, <<2898826, 2899178, 2904457>>, <<2898944, 2902285, 2914646>>, <<3564745, 4163177, 4639045>>, <<3832253, 4563757, 5128115>>>>, <<<<-1, -166, -1136>>, <<898806, 897611, 896417>>, <<898806, 897777, 897553>>, <<898808, 897889, 898078>>, <<967847, 1066513, 1154860>>, <<997982, 1120217, 1225857>>, <<2426963, 3197190, 3774483>>, <<2780422, 3684077, 4352598>>>>, <<<<-1101195, -1102440, -1104083>>, <<0, 0, 0>>, <<0, 51, 500>>, <<0, 95, 786>>, <<59526, 158771, 250962>>, <<88921, 214210, 325655>>, <<1624901, 2466345, 3097810>>, <<2010736, 2998744, 3730328>>>>>>,
    <<<<<<0, 0, 0>>, <<2998795, 2997589, 2996384>>, <<2998795, 2997589, 2996384>>, <<2998795, 2997589, 2996384>>, <<2998808, 2998816, 3003150>>, <<2998891, 3001433, 3012243>>, <<3646373, 4242088, 4717609>>, <<3912207, 4642323, 5207143>>>>, <<<<0, -55, -524>>, <<998795, 997589, 996384>>, <<998795, 997644, 996908>>, <<998795, 997690, 997198>>, <<1054779, 1145982, 1230506>>, <<1082077, 1197211, 1299413>>, <<2493521, 3265221, 3844264>>, <<2847486, 3753570, 4424419>>>>, <<<<-1001206, -1002568, -1004720>>, <<0, 0, 0>>, <<1, 157, 1105>>, <<2, 267, 1631>>, <<74157, 182477, 279695>>, <<106944, 241170, 357405>>, <<1676527, 2524075, 3159403>>, <<2065361, 3059762, 3795491>>>>>>,
    <<<<<<0, 0, 0>>, <<3198773, 3197545, 3196318>>, <<3198773, 3197545, 3196318>>, <<3198773, 3197545, 3196318>>, <<3198778, 3198292, 3201085>>, <<3198819, 3200129, 3208280>>, <<3811141, 4401077, 4875700>>, <<4073460, 4800448, 5365999>>>>, <<<<0, -5, -97>>, <<1198773, 1197545, 1196318>>, <<1198773, 1197550, 1196415>>, <<1198773, 1197556, 1196491>>, <<1234847, 1311095, 1387450>>, <<1256635, 1357065, 1451750>>, <<2628724, 3402734, 3984983>>, <<2983359, 3893753, 4569003>>>>, <<<<-801258, -803580, -808190>>, <<0, 0, 0>>, <<31, 1125, 4508>>, <<58, 1634, 5981>>, <<111565, 237288, 343724>>, <<151016, 301975, 426897>>, <<1782079, 2641130, 3283858>>, <<2176530, 3183111, 3926849>>>>>>,
    <<<<<<0, 0, 0>>, <<3398751, 3397502, 3396253>>, <<3398751, 3397502, 3396253>>, <<3398751, 3397502, 3396253>>, <<3398753, 3397951, 3399590>>, <<3398773, 3399224, 3405233>>, <<3977835, 4561572, 5035039>>, <<4236439, 4959858, 5525894>>>>, <<<<0, 0, -15>>, <<1398751, 1397502, 1396253>>, <<1398751, 1397502, 1396268>>, <<1398751, 1397503, 1396284>>, <<1421387, 1483405, 1551228>>, <<1438177, 1523929, 1610519>>, <<2766627, 3542132, 4127206>>, <<3121496, 4035492, 4714813>>>>, <<<<-601813, -608242, -618508>>, <<0, 0, 0>>, <<563, 5744, 14761>>, <<841, 7380, 17984>>, <<161463, 302559, 416788>>, <<206949, 372338, 504536>>, <<1890642, 2760267, 3409969>>, <<2290212, 3308175, 4059555>>>>>>,
    <<<<<<0, 0, 0>>, <<3498740, 3497480, 3496220>>, <<3498740, 3497480, 3496220>>, <<3498740, 3497480, 3496220>>, <<3498741, 3497827, 3499005>>, <<3498755, 3498883, 3503988>>, <<4061873, 4642366, 5115163>>, <<4318552, 5040031, 5606220>>>>, <<<<0, 0, -5>>, <<1498740, 1497480, 1496220>>, <<1498740, 1497480, 1496225>>, <<1498740, 1497480, 1496232>>, <<1516496, 1571885, 1635421>>, <<1531052, 1609693, 1692113>>, <<2836561, 3612519, 4198868>>, <<3191391, 4106930, 4788166>>>>, <<<<-503145, -514066, -528535>>, <<0, 0, 0>>, <<1885, 11546, 24755>>, <<2565, 14114, 29120>>, <<191631, 339292, 456781>>, <<239729, 411208, 546446>>, <<1946034, 2820601, 3473633>>, <<2347978, 3371337, 4126402>>>>>>,
    <<<<<<0, 0, 0>>, <<3598729, 3597458, 3596187>>, <<3598729, 3597458, 3596187>>, <<3598729, 3597458, 3596187>>, <<3598730, 3597725, 3598509>>, <<3598739, 3598598, 3602900>>, <<4146356, 4723513, 5195582>>, <<4401067, 5120507, 5686794>>>>, <<<<0, 0, -2>>, <<1598729, 1597458, 1596187>>, <<1598729, 1597458, 1596189>>, <<1598729, 1597458, 1596192>>, <<1612569, 1661728, 1721015>>, <<1625087, 1696857, 1775074>>, <<2907134, 3683355, 4270889>>, <<3261824, 4178741, 4861813>>>>, <<<<-406689, -424130, -443422>>, <<0, 0, 0>>, <<5418, 21588, 39608>>, <<6821, 25291, 45191>>, <<225510, 378822, 499107>>, <<275868, 452572, 590425>>, <<2002154, 2881437, 3537697>>, <<2406350, 3434911, 4193575>>>>>>,
    <<<<<<0, 0, 0>>, <<3698718, 3697436, 3696154>>, <<3698718, 3697436, 3696154>>, <<3698718, 3697436, 3696154>>, <<3698718, 3697642, 3698086>>, <<3698725, 3698361, 3701949>>, <<4231270, 4805008, 5276292>>, <<4483976, 5201282, 5767611>>>>, <<<<0, 0, -1>>, <<1698718, 1697436, 1696154>>, <<1698718, 1697436, 1696155>>, <<1698718, 1697436, 1696156>>, <<1709437, 1752801, 1807912>>, <<1720119, 1785314, 1859325>>, <<2978335, 3754634, 4343264>>, <<3332786, 4250917, 4935749>>>>, <<<<-314791, -340283, -364477>>, <<0, 0, 0>>, <<13509, 37719, 60631>>, <<15960, 42629, 67384>>, <<263228, 421179, 543770>>, <<315446, 496443, 636471>>, <<2058994, 2942769, 3602154>>, <<2465321, 3498894, 4261067>>>>>>,
    <<<<<<0, 0, 0>>, <<3798707, 3797414, 3796121>>, <<3798707, 3797414, 3796121>>, <<3798707, 3797414, 3796121>>, <<3798707, 3797572, 3797727>>, <<3798712, 3798163, 3801119>>, <<4316605, 4886843, 5357287>>, <<4567270, 5282351, 5848668>>>>, <<<<0, 0, 0>>, <<1798707, 1797414, 1796121>>, <<1798707, 1797414, 1796121>>, <<1798707, 1797414, 1796122>>, <<1806957, 1844981, 1896020>>, <<1816005, 1874956, 1944788>>, <<3050151, 3826348, 4415988>>, <<3404268, 4323454, 5009970>>>>, <<<<-230820, -264455, -292925>>, <<0, 0, 0>>, <<29527, 61869, 89047>>, <<33168, 67872, 96784>>, <<304877, 466377, 590770>>, <<358515, 542826, 684577>>, <<2116546, 3004591, 3667001>>, <<2524885, 3563280, 4328876>>>>>>,
    <<<<<<0, 0, 0>>, <<3898696, 3897392, 3896088>>, <<3898696, 3897392, 3896088>>, <<3898696, 3897392, 3896088>>, <<3898696, 3897513, 3897421>>, <<3898699, 3897998, 3900394>>, <<4402348, 4969012, 5438562>>, <<4650939, 5363707, 5929959>>>>, <<<<0, 0, 0>>, <<1898696, 1897392, 1896088>>, <<1898696, 1897392, 1896088>>, <<1898696, 1897392, 1896089>>, <<1905007, 1938152, 1985247>>, <<1912614, 1965685, 2031391>>, <<3122572, 3898491, 4489055>>, <<3476263, 4396347, 5084472>>>>, <<<<-158531, -198336, -229747>>, <<0, 0, 0>>, <<57227, 95728, 125836>>, <<61842, 102507, 134243>>, <<350508, 514419, 640096>>, <<405100, 591712, 734730>>, <<2174801, 3066897, 3732232>>, <<2585034, 3628063, 4396997>>>>>> >>
\* BsmCallTab[strike][spot][vol][T]: the closed form, in 1e-5 dollars
BsmCallTab == <<
    <<<<<<-128092, -152150, -171519>>, <<0, 0, 0>>, <<28980, 53925, 74181>>, <<31831, 58309, 79702>>, <<222204, 332997, 418303>>, <<258796, 384942, 481958>>, <<1449862, 2051602, 2500636>>, <<1726166, 2429595, 2948424>>>>, <<<<0, 0, 0>>, <<1900888, 1901775, 1902663>>, <<1900888, 1901775, 1902663>>, <<1900888, 1901775, 1902663>>, <<1902317, 1917711, 1944940>>, <<1904920, 1932259, 1973158>>, <<2797775, 3424794, 3906820>>, <<3081820, 3830004, 4393605>>>>, <<<<0, 0, 0>>, <<3900888, 3901775, 3902663>>, <<3900888, 3901775, 3902663>>, <<3900888, 3901775, 3902663>>, <<3900888, 3901912, 3904117>>, <<3900891, 3902447, 3907292>>, <<4417298, 4994255, 5471504>>, <<4669929, 5394155, 5968879>>>>>>,
    <<<<<<-209130, -225702, -241296>>, <<0, 0, 0>>, <<10028, 27499, 43992>>, <<11783, 30953, 48716>>, <<182545, 291481, 376174>>, <<218333, 343014, 439624>>, <<1410690, 2015692, 2467298>>, <<1688456, 2395849, 2917715>>>>, <<<<0, 0, 0>>, <<1800899, 1801797, 1802695>>, <<1800899, 1801797, 1802695>>, <<1800899, 1801797, 1802695>>, <<1803148, 1822486, 1853987>>, <<1806719, 1839601, 1885508>>, <<2739897, 3375830, 3863066>>, <<3028422, 3785481, 4354406>>>>, <<<<0, 0, 0>>, <<3800899, 3801797, 3802695>>, <<3800899, 3801797, 3802695>>, <<3800899, 3801797, 3802695>>, <<3800899, 3802001, 3804621>>, <<3800905, 3802721, 3808503>>, <<4345201, 4934476, 5418866>>, <<4603991, 5340473, 5922316>>>>>>,
    <<<<<<-301829, -310747, -321600>>, <<0, 0, 0>>, <<2738, 12566, 24328>>, <<3526, 14892, 27967>>, <<148369, 253927, 337300>>, <<182737, 304584, 400160>>, <<1372508, 1980463, 2434503>>, <<1651570, 2362663, 2887446>>>>, <<<<0, 0, 0>>, <<1700910, 1701819, 1702728>>, <<1700910, 1701819, 1702728>>, <<1700910, 1701819, 1702728>>, <<1704367, 1728371, 1764480>>, <<1709162, 1748284, 1799429>>, <<2683033, 3327596, 3819900>>, <<2975890, 3741565, 4315689>>>>, <<<<0, 0, 0>>, <<3700910, 3701819, 3702728>>, <<3700910, 3701819, 3702728>>, <<3700910, 3701819, 3702728>>, <<3700910, 3702118, 3705254>>, <<3700921, 3703074, 3709962>>, <<4273980, 4875407, 5366823>>, <<4538855, 5287402, 5876251>>>>>>,
    <<<<<<-399663, -403284, -409757>>, <<0, 0, 0>>, <<584, 5125, 12518>>, <<845, 6469, 15051>>, <<119302, 220162, 301568>>, <<151731, 269521, 363476>>, <<1335298, 1945904, 2402239>>, <<1615492, 2330027, 2857609>>>>, <<<<0, 0, 0>>, <<1600920, 1601841, 1602761>>, <<1600920, 1601841, 1602761>>, <<1600920, 1601841, 1602761>>, <<1606117, 1635543, 1676557>>, <<1612423, 1658466, 1715029>>, <<2627177, 3280082, 3777314>>, <<2924215, 3698248, 4277447>>>>, <<<<0, 0, 0>>, <<3600920, 3601841, 3602761>>, <<3600920, 3601841, 3602761>>, <<3600920, 3601841, 3602761>>, <<3600922, 3602274, 3606043>>, <<3600941, 3603529, 3611708>>, <<4203638, 4817042, 5315369>>, <<4474518, 5234938, 5830679>>>>>>,
    <<<<<<-599070, -598716, -599829>>, <<0, 0, 0>>, <<12, 601, 2656>>, <<25, 892, 3576>>, <<74682, 163178, 238999>>, <<102143, 208872, 298040>>, <<1263714, 1878741, 2339266>>, <<1545699, 2266366, 2799201>>>>, <<<<0, 0, -1>>, <<1400942, 1401885, 1402827>>, <<1400942, 1401885, 1402828>>, <<1400942, 1401885, 1402830>>, <<1411960, 1454506, 1506024>>, <<1422225, 1483962, 1551692>>, <<2518452, 3187177, 3693845>>, <<2823397, 3613377, 4202357>>>>, <<<<0, 0, 0>>, <<3400942, 3401885, 3402827>>, <<3400942, 3401885, 3402827>>, <<3400942, 3401885, 3402827>>, <<3400949, 3402755, 3408227>>, <<3400999, 3404847, 3416238>>, <<4065592, 4702400, 5214198>>, <<4348227, 5131797, 5740987>>>>>>,
    <<<<<<-699048, -698266, -698235>>, <<0, 0, 0>>, <<1, 172, 1094>>, <<3, 283, 1577>>, <<58143, 139502, 211868>>, <<82818, 182942, 269063>>, <<1229301, 1846114, 2308539>>, <<1511953, 2235320, 2770614>>>>, <<<<0, 0, -5>>, <<1300953, 1301907, 1302860>>, <<1300953, 1301907, 1302864>>, <<1300953, 1301907, 1302870>>, <<1316523, 1366692, 1423687>>, <<1329245, 1399594, 1472952>>, <<2465565, 3141768, 3652947>>, <<2774236, 3571806, 4165494>>>>, <<<<0, 0, 0>>, <<3300953, 3301907, 3302860>>, <<3300953, 3301907, 3302860>>, <<3300953, 3301907, 3302860>>, <<3300966, 3303118, 3309700>>, <<3301046, 3305774, 3319122>>, <<3997891, 4646112, 5164468>>, <<4286265, 5081108, 5696854>>>>>>,
    <<<<<<-799036, -798116, -797526>>, <<0, 0, 0>>, <<0, 44, 419>>, <<0, 81, 651>>, <<44788, 118714, 187298>>, <<66626, 159697, 242423>>, <<1195781, 1814106, 2278304>>, <<1478953, 2204785, 2742428>>>>, <<<<0, 0, -17>>, <<1200964, 1201929, 1202893>>, <<1200964, 1201929, 1202910>>, <<1200964, 1201930, 1202928>>, <<1222557, 1280948, 1343477>>, <<1238034, 1317355, 1396288>>, <<2413650, 3097042, 3612595>>, <<2725892, 3530799, 4129078>>>>, <<<<0, 0, 0>>, <<3200964, 3201929, 3202893>>, <<3200964, 3201929, 3202893>>, <<3200964, 3201929, 3202893>>, <<3200986, 3203594, 3211490>>, <<3201111, 3206932, 3222491>>, <<3931070, 4590505, 5115300>>, <<4225088, 5030998, 5653188>>>>>>,
    <<<<<<-899025, -898060, -897223>>, <<0, 0, 0>>, <<0, 10, 149>>, <<0, 21, 252>>, <<34137, 100565, 165126>>, <<53186, 138947, 217994>>, <<1163136, 1782705, 2248554>>, <<1446685, 2174750, 2714636>>>>, <<<<0, -3, -58>>, <<1100975, 1101950, 1102926>>, <<1100975, 1101953, 1102984>>, <<1100975, 1101957, 1103033>>, <<1130389, 1197474, 1265514>>, <<1148880, 1237394, 1321782>>, <<2362697, 3052989, 3572781>>, <<2678357, 3490350, 4093100>>>>, <<<<0, 0, 0>>, <<3100975, 3101950, 3102926>>, <<3100975, 3101950, 3102926>>, <<3100975, 3101950, 3102926>>, <<3101014, 3104215, 3113648>>, <<3101204, 3108366, 3126404>>, <<3865129, 4535572, 5066688>>, <<4164690, 4981460, 5609983>>>>>>,
    <<<<<<-1099003, -1098006, -1097024>>, <<0, 0, 0>>, <<0, 0, 15>>, <<0, 1, 31>>, <<19223, 71206, 127320>>, <<33125, 104171, 175266>>, <<1100393, 1721679, 2190469>>, <<1384283, 2116147, 2660208>>>>, <<<<0, -54, -491>>, <<900997, 901994, 902991>>, <<900997, 902048, 903482>>, <<900998, 902092, 903752>>, <<952876, 1038096, 1116772>>, <<977935, 1084847, 1179531>>, <<2263634, 2966868, 3494737>>, <<2585671, 3411088, 4022435>>>>, <<<<0, 0, 0>>, <<2900997, 2901994, 2902991>>, <<2900997, 2901994, 2902991>>, <<2900997, 2901994, 2902991>>, <<2901107, 2906046, 2919309>>, <<2901527, 2912278, 2936120>>, <<3735880, 4427704, 4971102>>, <<4046213, 4884074, 5524932>>>>>>,
    <<<<<<-1998904, -1997808, -1996713>>, <<0, 0, 0>>, <<0, 0, 0>>, <<0, 0, 0>>, <<895, 12244, 34932>>, <<2760, 24545, 60153>>, <<856417, 1474171, 1950811>>, <<1135887, 1874893, 2433024>>>>, <<<<-82974, -117014, -143003>>, <<1096, 2192, 3287>>, <<84069, 119206, 146290>>, <<88245, 125111, 153521>>, <<334538, 473265, 579731>>, <<380429, 538096, 659048>>, <<1862556, 2610259, 3168156>>, <<2205896, 3079891, 3724476>>>>, <<<<0, 0, 0>>, <<2001096, 2002192, 2003287>>, <<2001096, 2002192, 2003287>>, <<2001096, 2002192, 2003287>>, <<2005860, 2036732, 2081987>>, <<2012179, 2061805, 2125324>>, <<3197163, 3974014, 4566769>>, <<3550284, 4472472, 5163467>>>>>>,
    <<<<<<-2098893, -2097787, -2096680>>, <<0, 0, 0>>, <<0, 0, 0>>, <<0, 0, 0>>, <<608, 9876, 29910>>, <<2026, 20614, 52980>>, <<832830, 1449199, 1926220>>, <<1111290, 1850192, 2409451>>>>, <<<<-142489, -173943, -198789>>, <<0, 0, 0>>, <<43595, 76157, 102109>>, <<47373, 81794, 109137>>, <<288526, 427235, 533911>>, <<334367, 492196, 613470>>, <<1822271, 2573584, 3134211>>, <<2167261, 3045516, 3693274>>>>, <<<<0, 0, 0>>, <<1901107, 1902213, 1903320>>, <<1901107, 1902213, 1903320>>, <<1901107, 1902213, 1903320>>, <<1907766, 1944252, 1994480>>, <<1915671, 1972384, 2041360>>, <<3141557, 3926679, 4524326>>, <<3498822, 4429304, 5125343>>>>>>,
    <<<<<<-2198882, -2197765, -2196647>>, <<0, 0, 0>>, <<0, 0, 0>>, <<0, 0, 0>>, <<410, 7938, 25557>>, <<1478, 17268, 46593>>, <<809885, 1424697, 1902009>>, <<1087247, 1825885, 2386191>>>>, <<<<-218583, -243347, -264979>>, <<0, 0, 0>>, <<19701, 45582, 68332>>, <<22468, 50425, 74698>>, <<247166, 384504, 490786>>, <<292401, 449198, 570261>>, <<1782798, 2537467, 3100710>>, <<2129300, 3011599, 3662431>>>>, <<<<0, 0, 0>>, <<1801118, 1802235, 1803353>>, <<1801118, 1802235, 1803353>>, <<1801118, 1802235, 1803354>>, <<1810291, 1853028, 1908431>>, <<1820041, 1884366, 1958900>>, <<3086783, 3879935, 4482358>>, <<3448065, 4386626, 5087606>>>>>>,
    <<<<<<-2298871, -2297743, -2296614>>, <<0, 0, 0>>, <<0, 0, 0>>, <<0, 0, 0>>, <<274, 6357, 21791>>, <<1072, 14429, 40915>>, <<787566, 1400654, 1878172>>, <<1063745, 1801963, 2363238>>>>, <<<<-306550, -323212, -340375>>, <<0, 0, 0>>, <<7679, 25469, 43761>>, <<9331, 29224, 49147>>, <<210295, 344991, 450299>>, <<254406, 409036, 529374>>, <<1744124, 2501899, 3067645>>, <<2092004, 2978134, 3631943>>>>, <<<<0, 0, -1>>, <<1701129, 1702257, 1703386>>, <<1701129, 1702257, 1703387>>, <<1701129, 1702257, 1703389>>, <<1713585, 1763195, 1823934>>, <<1725449, 1797863, 1878013>>, <<3032833, 3833775, 4440859>>, <<3398006, 4344433, 5050253>>>>>>,
    <<<<<<-2498849, -2497699, -2496549>>, <<0, 0, 0>>, <<0, 0, 0>>, <<0, 0, 0>>, <<120, 4037, 15748>>, <<554, 10001, 31418>>, <<744744, 1353914, 1831592>>, <<1018317, 1755248, 2318236>>>>, <<<<-499579, -504105, -512196>>, <<0, 0, 0>>, <<730, 6406, 15647>>, <<1057, 8087, 18814>>, <<149127, 275202, 376960>>, <<189664, 336901, 454345>>, <<1669123, 2432380, 3002799>>, <<2019365, 2912534, 3572012>>>>, <<<<0, 0, -11>>, <<1501151, 1502301, 1503451>>, <<1501151, 1502301, 1503462>>, <<1501151, 1502302, 1503475>>, <<1523204, 1588258, 1659970>>, <<1540081, 1629838, 1721227>>, <<2927384, 3743184, 4359244>>, <<3299955, 4261479, 4976677>>>>>>,
    <<<<<<-2698827, -2697655, -2696483>>, <<0, 0, 0>>, <<0, 0, 0>>, <<0, 0, 0>>, <<51, 2530, 11294>>, <<280, 6867, 23994>>, <<704241, 1308907, 1786427>>, <<974915, 1709993, 2274402>>>>, <<<<-698864, -698852, -701119>>, <<0, 0, 0>>, <<36, 1197, 4636>>, <<67, 1715, 6086>>, <<102874, 216890, 313254>>, <<138546, 275047, 387889>>, <<1597167, 2364961, 2939622>>, <<1949262, 2848661, 3513437>>>>, <<<<0, -4, -85>>, <<1301173, 1302345, 1303517>>, <<1301173, 1302349, 1303602>>, <<1301173, 1302354, 1303671>>, <<1338272, 1420555, 1503297>>, <<1361091, 1469158, 1571495>>, <<2825157, 3654854, 4279437>>, <<3204615, 4180394, 4904576>>>>>>,
    <<<<<<-2798817, -2797633, -2796450>>, <<0, 0, 0>>, <<0, 0, 0>>, <<0, 0, 0>>, <<33, 1994, 9537>>, <<198, 5672, 20927>>, <<684822, 1287032, 1764360>>, <<953944, 1687896, 2252911>>>>, <<<<-798823, -798095, -798800>>, <<0, 0, 0>>, <<6, 462, 2350>>, <<14, 714, 3247>>, <<84566, 191682, 284786>>, <<117516, 247708, 357701>>, <<1562300, 2332019, 2908644>>, <<1915137, 2817357, 3484647>>>>, <<<<0, -15, -213>>, <<1201183, 1202367, 1203550>>, <<1201184, 1202382, 1203763>>, <<1201184, 1202398, 1203908>>, <<1248445, 1339755, 1427895>>, <<1274497, 1391818, 1499409>>, <<2775234, 3611521, 4240197>>, <<3157944, 4140538, 4869066>>>>>>,
    <<<<<<-2898806, -2897611, -2896417>>, <<0, 0, 0>>, <<0, 0, 0>>, <<0, 0, 0>>, <<21, 1567, 8040>>, <<139, 4674, 18229>>, <<665939, 1265565, 1742628>>, <<933447, 1666145, 2231698>>>>, <<<<-898806, -897777, -897553>>, <<0, 0, 0>>, <<1, 166, 1136>>, <<2, 278, 1661>>, <<69042, 168902, 258443>>, <<99177, 222606, 329440>>, <<1528157, 2299579, 2878066>>, <<1881617, 2786466, 3456181>>>>, <<<<0, -51, -500>>, <<1101194, 1102389, 1103583>>, <<1101195, 1102440, 1104083>>, <<1101195, 1102484, 1104369>>, <<1160721, 1261159, 1354545>>, <<1190115, 1316599, 1429238>>, <<2726095, 3568734, 4201393>>, <<3111930, 4101133, 4833911>>>>>>,
    <<<<<<-2998795, -2997589, -2996384>>, <<0, 0, 0>>, <<0, 0, 0>>, <<0, 0, 0>>, <<13, 1227, 6766>>, <<97, 3844, 15859>>, <<647579, 1244498, 1721224>>, <<913412, 1644733, 2210759>>>>, <<<<-998795, -997644, -996908>>, <<0, 0, 0>>, <<0, 55, 524>>, <<0, 101, 814>>, <<55985, 148393, 234122>>, <<83282, 199622, 303028>>, <<1494726, 2267632, 2847880>>, <<1848691, 2755981, 3428035>>>>, <<<<-1, -157, -1105>>, <<1001205, 1002411, 1003616>>, <<1001206, 1002568, 1004720>>, <<1001208, 1002677, 1005247>>, <<1075363, 1184888, 1283311>>, <<1108149, 1243580, 1361021>>, <<2677733, 3526486, 4163019>>, <<3066566, 4062173, 4799107>>>>>>,
    <<<<<<-3098784, -3097567, -3096351>>, <<0, 0, 0>>, <<0, 0, 0>>, <<0, 0, 0>>, <<8, 959, 5684>>, <<67, 3154, 13781>>, <<629726, 1223823, 1700144>>, <<893829, 1623655, 2190087>>>>, <<<<-1098784, -1097584, -1096582>>, <<0, 0, 0>>, <<0, 17, 230>>, <<0, 34, 383>>, <<45091, 129994, 211720>>, <<69589, 178634, 278386>>, <<1461995, 2236171, 2818082>>, <<1816351, 2725897, 3400204>>>>, <<<<-6, -439, -2297>>, <<901216, 902433, 903649>>, <<901222, 902872, 905945>>, <<901228, 903120, 906854>>, <<992634, 1111049, 1214248>>, <<1028797, 1172836, 1294792>>, <<2630139, 3484772, 4125069>>, <<3021844, 4023652, 4764648>>>>>>,
    <<<<<<-3398751, -3397502, -3396253>>, <<0, 0, 0>>, <<0, 0, 0>>, <<0, 0, 0>>, <<2, 449, 3337>>, <<22, 1723, 8980>>, <<579085, 1164070, 1638787>>, <<837688, 1562357, 2129641>>>>, <<<<-1398751, -1397502, -1396268>>, <<0, 0, 0>>, <<0, 0, 15>>, <<0, 1, 31>>, <<22636, 85903, 154975>>, <<39426, 126428, 214266>>, <<1367876, 2144630, 2730954>>, <<1722745, 2637991, 3318560>>>>, <<<<-563, -5744, -14761>>, <<601249, 602498, 603747>>, <<601813, 608242, 618508>>, <<602090, 609878, 621731>>, <<762712, 905057, 1020535>>, <<808199, 974836, 1108283>>, <<2491892, 3362765, 4013716>>, <<2891462, 3910673, 4663302>>>>>>,
    <<<<<<-4098674, -4097348, -4096023>>, <<0, 0, 0>>, <<0, 0, 0>>, <<0, 0, 0>>, <<0, 70, 915>>, <<1, 394, 3187>>, <<476345, 1036975, 1505911>>, <<720696, 1429916, 1997212>>>>, <<<<-2098674, -2097348, -2096023>>, <<0, 0, 0>>, <<0, 0, 0>>, <<0, 0, 0>>, <<3628, 29699, 70692>>, <<8893, 52679, 111705>>, <<1170506, 1946687, 2540180>>, <<1523077, 2445829, 3138281>>>>, <<<<-157580, -196258, -226495>>, <<0, 0, 0>>, <<58906, 98910, 130472>>, <<63585, 105778, 138987>>, <<355042, 521611, 649631>>, <<410108, 599572, 745081>>, <<2194714, 3095589, 3767805>>, <<2608384, 3661455, 4438139>>>>>>,
    <<<<<<-4198663, -4197326, -4195990>>, <<0, 0, 0>>, <<0, 0, 0>>, <<0, 0, 0>>, <<0, 53, 756>>, <<1, 317, 2739>>, <<463261, 1020126, 1488030>>, <<705452, 1412128, 1979221>>>>, <<<<-2198663, -2197326, -2195990>>, <<0, 0, 0>>, <<0, 0, 0>>, <<0, 0, 0>>, <<2726, 25255, 62806>>, <<7062, 46141, 101336>>, <<1144682, 1920097, 2514282>>, <<1496564, 2419778, 3113636>>>>, <<<<-229967, -262720, -290187>>, <<0, 0, 0>>, <<31304, 65393, 94197>>, <<35074, 71577, 102153>>, <<312533, 478063, 605838>>, <<367129, 555855, 701284>>, <<2155040, 3059333, 3734194>>, <<2570255, 3627425, 4407207>>>>>>,
    <<<<<<-4298652, -4297304, -4295957>>, <<0, 0, 0>>, <<0, 0, 0>>, <<0, 0, 0>>, <<0, 41, 624>>, <<1, 255, 2351>>, <<450543, 1003585, 1470411>>, <<690551, 1394609, 1961450>>>>, <<<<-2298652, -2297304, -2295957>>, <<0, 0, 0>>, <<0, 0, 0>>, <<0, 0, 0>>, <<2037, 21424, 55719>>, <<5585, 40343, 91834>>, <<1119417, 1893909, 2488708>>, <<1470529, 2394063, 3089256>>>>, <<<<-313695, -338552, -361944>>, <<0, 0, 0>>, <<15043, 41248, 65988>>, <<17674, 46430, 73074>>, <<273818, 437221, 564261>>, <<327499, 514521, 659436>>, <<2116035, 3023538, 3700948>>, <<2532684, 3593773, 4376572>>>>>>,
    <<<<<<-4398641, -4397282, -4395924>>, <<0, 0, 0>>, <<0, 0, 0>>, <<0, 0, 0>>, <<0, 31, 515>>, <<0, 205, 2016>>, <<438182, 987346, 1453049>>, <<675984, 1377353, 1943897>>>>, <<<<-2398641, -2397282, -2395924>>, <<0, 0, 0>>, <<0, 0, 0>>, <<0, 0, 0>>, <<1513, 18130, 49360>>, <<4399, 35212, 83139>>, <<1094700, 1868117, 2463454>>, <<1444963, 2368677, 3065139>>>>, <<<<-405146, -422062, -440736>>, <<0, 0, 0>>, <<6505, 24779, 44812>>, <<8102, 28828, 50836>>, <<238760, 399022, 524854>>, <<291116, 475520, 619502>>, <<2077690, 2988197, 3668063>>, <<2495662, 3560494, 4346231>>>>>>,
    <<<<<<-4598619, -4597239, -4595858>>, <<0, 0, 0>>, <<0, 0, 0>>, <<0, 0, 0>>, <<0, 18, 349>>, <<0, 131, 1480>>, <<414487, 955749, 1419077>>, <<647822, 1343614, 1909428>>>>, <<<<-2598619, -2597239, -2595858>>, <<0, 0, 0>>, <<0, 0, 0>>, <<0, 0, 0>>, <<822, 12891, 38573>>, <<2696, 26688, 67937>>, <<1046869, 1817695, 2413884>>, <<1395206, 2318876, 3017675>>>>, <<<<-599495, -604926, -614635>>, <<0, 0, 0>>, <<876, 7687, 18777>>, <<1268, 9704, 22577>>, <<178953, 330242, 452352>>, <<227597, 404281, 545214>>, <<2002947, 2918856, 3603358>>, <<2423238, 3495041, 4286414>>>>>>,
    <<<<<<-4898586, -4897173, -4895760>>, <<0, 0, 0>>, <<0, 0, 0>>, <<0, 0, 0>>, <<0, 7, 193>>, <<0, 67, 925>>, <<381378, 910469, 1369937>>, <<607901, 1294868, 1859272>>>>, <<<<-2898586, -2897173, -2895760>>, <<0, 0, 0>>, <<0, 0, 0>>, <<0, 0, 0>>, <<316, 7598, 26378>>, <<1256, 17394, 49824>>, <<978970, 1744875, 2341811>>, <<1323885, 2246530, 2948355>>>>, <<<<-898605, -898074, -899744>>, <<0, 0, 0>>, <<19, 901, 3984>>, <<37, 1339, 5363>>, <<112023, 244767, 358498>>, <<153215, 313308, 447059>>, <<1895570, 2818112, 3508900>>, <<2318548, 3399548, 4198801>>>>>>,
    <<<<<<-5098564, -5097129, -5095694>>, <<0, 0, 0>>, <<0, 0, 0>>, <<0, 0, 0>>, <<0, 4, 130>>, <<0, 42, 674>>, <<360824, 881629, 1338340>>, <<582752, 1263562, 1826828>>>>, <<<<-3098564, -3097129, -3095694>>, <<0, 0, 0>>, <<0, 0, 0>>, <<0, 0, 0>>, <<163, 5284, 20342>>, <<741, 12974, 40333>>, <<936150, 1698136, 2295232>>, <<1278459, 2199816, 2903353>>>>, <<<<-1098565, -1097295, -1096896>>, <<0, 0, 0>>, <<1, 166, 1202>>, <<2, 283, 1775>>, <<80043, 198397, 305102>>, <<115638, 262358, 389895>>, <<1827044, 2753064, 3447609>>, <<2251306, 3337628, 4141761>>>>>>,
    <<<<<<-5198554, -5197107, -5195661>>, <<0, 0, 0>>, <<0, 0, 0>>, <<0, 0, 0>>, <<0, 3, 106>>, <<0, 34, 575>>, <<350977, 867597, 1322879>>, <<570596, 1248255, 1810896>>>>, <<<<-3198554, -3197107, -3195661>>, <<0, 0, 0>>, <<0, 0, 0>>, <<0, 0, 0>>, <<116, 4392, 17831>>, <<566, 11179, 36241>>, <<915444, 1675291, 2272371>>, <<1256360, 2176900, 2881206>>>>, <<<<-1198554, -1197173, -1196289>>, <<0, 0, 0>>, <<0, 66, 628>>, <<0, 121, 977>>, <<67182, 178071, 280947>>, <<99939, 239546, 363634>>, <<1793672, 2721158, 3417456>>, <<2218430, 3307177, 4113642>>>>>>,
    <<<<<<-5398532, -5397063, -5395595>>, <<0, 0, 0>>, <<0, 0, 0>>, <<0, 0, 0>>, <<0, 2, 71>>, <<0, 21, 417>>, <<332104, 840284, 1292613>>, <<547092, 1218312, 1779593>>>>, <<<<-3398532, -3397063, -3395595>>, <<0, 0, 0>>, <<0, 0, 0>>, <<0, 0, 0>>, <<58, 3016, 13650>>, <<327, 8264, 29186>>, <<875392, 1630624, 2227484>>, <<1213353, 2131932, 2837602>>>>, <<<<-1398532, -1397072, -1395751>>, <<0, 0, 0>>, <<0, 9, 156>>, <<0, 19, 271>>, <<46666, 142589, 237359>>, <<73880, 198828, 315481>>, <<1728668, 2658556, 3358114>>, <<2154133, 3247273, 4058189>>>>>>,
    <<<<<<-5698499, -5696998, -5695497>>, <<0, 0, 0>>, <<0, 0, 0>>, <<0, 0, 0>>, <<0, 1, 38>>, <<0, 10, 257>>, <<305734, 801119, 1248799>>, <<513759, 1175016, 1734006>>>>, <<<<-3698499, -3696998, -3695497>>, <<0, 0, 0>>, <<0, 0, 0>>, <<0, 0, 0>>, <<20, 1692, 9063>>, <<140, 5197, 20963>>, <<818576, 1566097, 2162183>>, <<1151714, 2066572, 2773877>>>>, <<<<-1698499, -1696998, -1695512>>, <<0, 0, 0>>, <<0, 0, 15>>, <<0, 1, 32>>, <<26098, 100664, 182694>>, <<45783, 148748, 253327>>, <<1635386, 2567600, 3271453>>, <<2061230, 3159849, 3976925>>>>>> >>

\* The closed form for T > 0.
BsmClosedForm(S, K, T, sigma, option_type) ==
    IF option_type = "call"
    THEN BsmCallTab[Idx(CallStrikes, K)][Idx(TabPrices, S)][Idx(TabVols, sigma)][T]
    ELSE BsmPutTab[Idx(PutStrikes, K)][Idx(TabPrices, S)][Idx(TabVols, sigma)][T]

\* The payoff at expiry, in money.
Intrinsic(S, K, option_type) ==
    IF option_type = "call" THEN Max(0, S - K) * MoneyScale
    ELSE Max(0, K - S) * MoneyScale

\* OptionPricing._bsm_price_formula; T in days stands for T/365 years.
BsmPriceFormula(S, K, T, r, sigma, option_type) ==
    IF T <= 0 THEN Intrinsic(S, K, option_type)
    ELSE BsmClosedForm(S, K, T, sigma, option_type)

\* ------------------------------------------------------------------------
\* Hybrid pricing engine: src/src/pricing.py
\* ------------------------------------------------------------------------
\* The rows of a daily chain of one option type, in table order.
RowsOfType(daily_chain, option_type) ==
    SelectSeq(daily_chain, LAMBDA row : row.Type = option_type)

\* numpy argmin: the first index of the smallest distance.
ArgMin(dist) ==
    CHOOSE i \in DOMAIN dist :
        /\ \A j \in DOMAIN dist : dist[i] <= dist[j]
        /\ \A j \in 1..(i - 1) : dist[j] > dist[i]

\* A faulty variant of the lookup: the nearest strike at any distance.
LookupNoTolerance(date, target_strike, option_type) ==
    IF ~is_setup \/ market_cache = <<>> THEN <<>>
    ELSE LET cache == market_cache[1]
         IN  IF date \notin DOMAIN cache \/ cache[date] = <<>> THEN <<>>
             ELSE LET chain == RowsOfType(cache[date], option_type)
                  IN  IF chain = <<>> THEN <<>>
                      ELSE LET idx == ArgMin([i \in DOMAIN chain |->
                                          Abs(chain[i].Strike - target_strike)])
                           IN  <<chain[idx].Price>>

\* OptionPricing._lookup_market_price: <<>> for None, else <<price>>.
LookupMarketPrice(date, target_strike, option_type) ==
    IF ~is_setup \/ market_cache = <<>> THEN <<>>
    ELSE LET cache == market_cache[1]
         IN  IF date \notin DOMAIN cache \/ cache[date] = <<>> THEN <<>>
             ELSE LET chain == RowsOfType(cache[date], option_type)
                  IN  IF chain = <<>> THEN <<>>
                      ELSE LET idx == ArgMin([i \in DOMAIN chain |->
                                          Abs(chain[i].Strike - target_strike)])
                               best == chain[idx].Strike
                           IN  \* abs(best - target) / target > 0.05
                               IF Abs(best - target_strike) * 100 > 5 * target_strike
                               THEN <<>>
                               ELSE <<chain[idx].Price>>

\* The 0.0001 added to the denominator of rel_diff, in money.
RelGuard == 10
\* The 0.5 dollars that abs_diff has to exceed, in money.
AbsThreshold == 50000

\* The sanity check of get_price: rel_diff > 0.5 and abs_diff > 0.5, with
\* rel_diff = abs_diff / (bsm_price + 0.0001).
Rejects(market_price, bsm_price) ==
    LET abs_diff == Abs(market_price - bsm_price)
    IN  /\ 2 * abs_diff > bsm_price + RelGuard
        /\ abs_diff > AbsThreshold

\* A faulty variant of get_price: the relative test alone rejects.
GetPriceRelativeOnly(date, S, K, T, r, sigma, option_type) ==
    LET bsm_price == BsmPriceFormula(S, K, T, r, sigma, option_type)
        market_price == LookupMarketPrice(date, K, option_type)
    IN  IF market_price # <<>>
        THEN IF 2 * Abs(market_price[1] - bsm_price) > bsm_price + RelGuard
             THEN bsm_price
             ELSE market_price[1]
        ELSE bsm_price

\* OptionPricing.get_price
GetPrice(date, S, K, T, r, sigma, option_type) ==
    LET bsm_price == BsmPriceFormula(S, K, T, r, sigma, option_type)
        market_price == LookupMarketPrice(date, K, option_type)
    IN  IF market_price # <<>>
        THEN IF Rejects(market_price[1], bsm_price)
             THEN bsm_price
             ELSE market_price[1]
        ELSE bsm_price

\* OptionPricing._lookup_strike_by_delta: <<>> for None, else <<strike>>.
\* Deltas are held in percent.
LookupStrikeByDelta(date, target_delta, option_type) ==
    IF ~is_setup \/ market_cache = <<>> THEN <<>>
    ELSE LET cache == market_cache[1]
         IN  IF date \notin DOMAIN cache \/ cache[date] = <<>> THEN <<>>
             ELSE LET chain == RowsOfType(cache[date], option_type)
                  IN  IF chain = <<>> THEN <<>>
                      ELSE IF "Delta" \notin DOMAIN chain[1] THEN <<>>
                      ELSE LET all_positive ==
                                   \A j \in DOMAIN chain : chain[j].Delta > 0
                               target ==
                                   IF target_delta < 0 /\ all_positive
                                   THEN Abs(target_delta) ELSE target_delta
                               idx == ArgMin([j \in DOMAIN chain |->
                                          Abs(chain[j].Delta - target)])
                           IN  <<chain[idx].Strike>>

\* A faulty variant of the inversion: the target probability of a put taken
\* as the magnitude of its delta.
BsmFindStrikeMirrored(S, T, r, sigma, target_delta, option_type) ==
    StrikeTab[Idx(TabDeltas, Abs(target_delta))][Idx(TabPrices, S)][Idx(TabSigmas, sigma)][T]

\* OptionPricing._bsm_find_strike, in 1e-6 dollars; T in days stands for
\* T/365 years.
BsmFindStrikeFine(S, T, r, sigma, target_delta, option_type) ==
    StrikeTab[Idx(TabDeltas, target_delta)][Idx(TabPrices, S)][Idx(TabSigmas, sigma)][T]

\* The delta of the closed form at strike K (1e-6 dollars), in 1e-7: N(d1)
\* for a call, N(d1) - 1 for a put, d1 as in _bsm_price_formula.
BsmDelta(S, K, T, r, sigma, option_type) ==
    LET nd1 == NdOneTab[Idx(FineStrikes, K)][Idx(TabPrices, S)][Idx(TabSigmas, sigma)][T]
    IN  IF option_type = "call" THEN nd1 ELSE nd1 - 10000000

\* The strike a strategy trades at: that of _bsm_find_strike to the nearest
\* dollar.
BsmFindStrike(S, T, r, sigma, target_delta, option_type) ==
    (BsmFindStrikeFine(S, T, r, sigma, target_delta, option_type)
         + 500000) \div 1000000

\* A faulty variant of get_strike_by_delta: the None of a lookup that found
\* nothing is handed to the caller (written -1), without the analytic
\* inversion.
GetStrikeByDeltaNoFallback(date, S, T, r, sigma, target_delta, option_type) ==
    LET market_strike == LookupStrikeByDelta(date, target_delta, option_type)
    IN  IF market_strike # <<>> THEN market_strike[1] ELSE 0 - 1

\* A faulty variant of get_strike_by_delta: a row is taken only if its delta
\* is within 0.05 of the target, as a price is taken only within 5% of the
\* strike.
GetStrikeByDeltaWithinLimit(date, S, T, r, sigma, target_delta, option_type) ==
    LET market_strike == LookupStrikeByDelta(date, target_delta, option_type)
        chain == IF is_setup /\ market_cache # <<>> /\ date \in DOMAIN market_cache[1]
                 THEN RowsOfType(market_cache[1][date], option_type)
                 ELSE <<>>
        close == \E j \in DOMAIN chain :
                     /\ "Delta" \in DOMAIN chain[j]
                     /\ Abs(Abs(chain[j].Delta) - Abs(target_delta)) <= 5
    IN  IF market_strike # <<>> /\ close THEN market_strike[1]
        ELSE BsmFindStrike(S, T, r, sigma, target_delta, option_type)

\* OptionPricing.get_strike_by_delta
GetStrikeByDelta(date, S, T, r, sigma, target_delta, option_type) ==
    LET market_strike == LookupStrikeByDelta(date, target_delta, option_type)
    IN  IF market_strike # <<>> THEN market_strike[1]
        ELSE BsmFindStrike(S, T, r, sigma, target_delta, option_type)

\* ------------------------------------------------------------------------
\* Regime engine: src/src/regime.py
\* ------------------------------------------------------------------------
\* A float NaN: a missing observation, or a quantile over too few of them.
NaN == -1

\* Volatility values a row may carry, in percent (0.40 is 40), and NaN.
SigmaVals == {NaN, 40, 60, 80}

\* MarketRegime values
LOW == "Low"
NORMAL == "Normal"
HIGH == "High"

\* __init__ defaults of the four percentiles, in percent.
high_enter == 67
high_exit == 60
low_enter == 33
low_exit == 40

\* A float comparison: False when either side is NaN.
FGt(a, b) == a # NaN /\ b # NaN /\ a > b
FLt(a, b) == a # NaN /\ b # NaN /\ a < b

\* A column without its NaN entries.
DropNaN(s) == SelectSeq(s, LAMBDA x : x # NaN)

\* A faulty variant of the window: the w rows that start at row i.
LookAheadObs(col, i, w) ==
    LET hi == IF i + w - 1 > Len(col) THEN Len(col) ELSE i + w - 1
    IN  DropNaN(SubSeq(col, i, hi))

\* The observations of the trailing window that ends at row i (1-based):
\* rows max(1, i-w+1)..i of the column, NaN skipped, as a sequence.
WindowObs(col, i, w) ==
    LET lo == IF i - w + 1 < 1 THEN 1 ELSE i - w + 1
    IN  DropNaN(SubSeq(col, lo, i))

\* The k-th smallest (k from 0) of the observations obs.
Kth(obs, k) ==
    CHOOSE v \in {obs[j] : j \in DOMAIN obs} :
        /\ Cardinality({j \in DOMAIN obs : obs[j] < v}) <= k
        /\ k < Cardinality({j \in DOMAIN obs : obs[j] <= v})

\* pandas' linear-interpolated quantile of obs at q percent, times 100:
\* position h = q*(n-1), value x[floor h] + frac(h) * (x[floor h + 1] - x[floor h]).
Quantile100(obs, q) ==
    LET n == Len(obs)
        h100 == (n - 1) * q
        lo == h100 \div 100
        frac == h100 % 100
        xlo == Kth(obs, lo)
        xhi == IF frac = 0 THEN xlo ELSE Kth(obs, lo + 1)
    IN  100 * xlo + frac * (xhi - xlo)

\* A faulty variant of the rolling quantile: valid one observation early.
RollingQuantileEarly(col, i, w, mp, q) ==
    LET obs == WindowObs(col, i, w)
    IN  IF Len(obs) < mp - 1 \/ Len(obs) = 0 THEN NaN ELSE Quantile100(obs, q)

\* rolling(window, min_periods).quantile(q) at row i: NaN below min_periods
\* observations.
RollingQuantile(col, i, w, mp, q) ==
    LET obs == WindowObs(col, i, w)
    IN  IF Len(obs) < mp \/ Len(obs) = 0 THEN NaN ELSE Quantile100(obs, q)

\* A value of the column on the scale of the quantiles (times 100).
Val100(v) == IF v = NaN THEN NaN ELSE 100 * v

\* A faulty variant of the loop body: High and Low are left at the enter
\* thresholds, without hysteresis.
SingleThresholdState(state, val, he, hx, le, lx) ==
    IF state = NORMAL THEN
        IF FGt(val, he) THEN HIGH
        ELSE IF FLt(val, le) THEN LOW
        ELSE state
    ELSE IF state = HIGH THEN
        IF FLt(val, he) THEN NORMAL ELSE state
    ELSE IF state = LOW THEN
        IF FGt(val, le) THEN NORMAL ELSE state
    ELSE state

\* A faulty variant of the loop body: High is entered at val >= q_high_enter.
InclusiveEnterState(state, val, he, hx, le, lx) ==
    IF state = NORMAL THEN
        IF val # NaN /\ he # NaN /\ val >= he THEN HIGH
        ELSE IF FLt(val, le) THEN LOW
        ELSE state
    ELSE IF state = HIGH THEN
        IF FLt(val, hx) THEN NORMAL ELSE state
    ELSE IF state = LOW THEN
        IF FGt(val, lx) THEN NORMAL ELSE state
    ELSE state

\* A faulty variant of the loop body: High falls to Low, and Low rises to
\* High, across the enter thresholds in one row.
NextStateDirect(state, val, he, hx, le, lx) ==
    IF FGt(val, he) /\ state # HIGH THEN HIGH
    ELSE IF FLt(val, le) /\ state # LOW THEN LOW
    ELSE IF state = HIGH /\ FLt(val, hx) THEN NORMAL
    ELSE IF state = LOW /\ FGt(val, lx) THEN NORMAL
    ELSE state

\* The body of the hysteresis loop for one row: the state after the row.
NextState(state, val, he, hx, le, lx) ==
    IF state = NORMAL THEN
        IF FGt(val, he) THEN HIGH
        ELSE IF FLt(val, le) THEN LOW
        ELSE state
    ELSE IF state = HIGH THEN
        IF FLt(val, hx) THEN NORMAL ELSE state
    ELSE IF state = LOW THEN
        IF FGt(val, lx) THEN NORMAL ELSE state
    ELSE state

\* add_signals as a function of its input column: the labels it gives to
\* rows 1..n of the column col (the loop run for the first n rows).
RECURSIVE RunLoop(_, _, _, _, _, _, _)
RunLoop(col, w, mp, n, i, state, acc) ==
    IF i > n THEN acc
    ELSE LET he == RollingQuantile(col, i, w, mp, high_enter)
         IN  IF he = NaN
             THEN RunLoop(col, w, mp, n, i + 1, state, Append(acc, NORMAL))
             ELSE LET s == NextState(state, Val100(col[i]), he,
                                     RollingQuantile(col, i, w, mp, high_exit),
                                     RollingQuantile(col, i, w, mp, low_enter),
                                     RollingQuantile(col, i, w, mp, low_exit))
                  IN  RunLoop(col, w, mp, n, i + 1, s, Append(acc, s))

AddSignalsLabels(col, w, mp, n) == RunLoop(col, w, mp, n, 1, NORMAL, <<>>)

RegimeParams ==
    {<<w, mp>> \in (1..MaxWindow) \X (1..MaxWindow) : mp <= w}

\* No batch is being run.
BatchIdle ==
    /\ driver = "none"
    /\ data = [rows |-> <<>>, columns |-> {}]
    /\ strategies = <<>> /\ accounts = <<>>
    /\ strat_no = 0
    /\ all_equity_curves = <<>> /\ batch_log = <<>> /\ master_df = <<>>
    /\ bpc = "idle"

\* The state of the other components while the regime engine runs.
StrategyIdle ==
    /\ kind = "none" /\ tenor = 1 /\ df_len = 0 /\ row_no = 0
    /\ cur_row = [price |-> 100, sigma |-> 40, r |-> 4, vol_gap |-> 0,
                  regime_signal |-> NORMAL]
    /\ pc = "idle"
    /\ cash = 0 /\ btc = 0 /\ positions = <<>> /\ stage = "CSP"
    /\ history = <<>>
    /\ stock_holdings = 0 /\ wheel_state = "CASH" /\ current_option = <<>>
    /\ portfolio_value = <<>>

PricingIdle ==
    /\ is_setup = FALSE
    /\ market_cache = <<>>
    /\ setup_msg = ""
    /\ req = <<>>
    /\ ret = 0

InitRegime ==
    /\ PricingIdle
    /\ StrategyIdle
    /\ BatchIdle
    /\ df_sigma \in [1..MaxLen -> SigmaVals]
    /\ \E p \in RegimeParams : window = p[1] /\ min_periods = p[2]
    /\ q_he = <<>> /\ q_hx = <<>> /\ q_le = <<>> /\ q_lx = <<>>
    /\ current_state = NORMAL
    /\ signals = <<>>
    /\ rpc = "rolling"

\* add_signals, lines 62-82: the four rolling quantile columns.
AddSignalsRolling ==
    /\ rpc = "rolling"
    /\ q_he' = [i \in 1..Len(df_sigma) |->
                    RollingQuantile(df_sigma, i, window, min_periods, high_enter)]
    /\ q_hx' = [i \in 1..Len(df_sigma) |->
                    RollingQuantile(df_sigma, i, window, min_periods, high_exit)]
    /\ q_le' = [i \in 1..Len(df_sigma) |->
                    RollingQuantile(df_sigma, i, window, min_periods, low_enter)]
    /\ q_lx' = [i \in 1..Len(df_sigma) |->
                    RollingQuantile(df_sigma, i, window, min_periods, low_exit)]
    /\ current_state' = NORMAL
    /\ signals' = <<>>
    /\ rpc' = "loop"
    /\ UNCHANGED <<df_sigma, window, min_periods>>
    /\ UNCHANGED pricingVars
    /\ UNCHANGED strategyVars
    /\ UNCHANGED batchVars

\* A faulty variant of the loop pass below: a row without thresholds resets
\* the state to Normal.
AddSignalsRowResets ==
    /\ rpc = "loop"
    /\ Len(signals) < Len(df_sigma)
    /\ LET i == Len(signals) + 1
           s == IF q_he[i] = NaN THEN NORMAL
                ELSE NextState(current_state, Val100(df_sigma[i]),
                               q_he[i], q_hx[i], q_le[i], q_lx[i])
       IN  current_state' = s /\ signals' = Append(signals, s)
    /\ UNCHANGED <<df_sigma, window, min_periods, q_he, q_hx, q_le, q_lx, rpc>>
    /\ UNCHANGED <<pricingVars, strategyVars, batchVars>>

\* add_signals, lines 84-110: one pass of the loop, for row Len(signals)+1.
AddSignalsRow ==
    /\ rpc = "loop"
    /\ Len(signals) < Len(df_sigma)
    /\ LET i == Len(signals) + 1
           val == Val100(df_sigma[i])
       IN  IF q_he[i] = NaN
           THEN /\ signals' = Append(signals, NORMAL)
                /\ UNCHANGED current_state
           ELSE LET s == NextState(current_state, val,
                                   q_he[i], q_hx[i], q_le[i], q_lx[i])
                IN  /\ current_state' = s
                    /\ signals' = Append(signals, s)
    /\ UNCHANGED <<df_sigma, window, min_periods, q_he, q_hx, q_le, q_lx, rpc>>
    /\ UNCHANGED pricingVars
    /\ UNCHANGED strategyVars
    /\ UNCHANGED batchVars

\* add_signals, lines 112-113: the loop is over, the column is stored.
AddSignalsReturn ==
    /\ rpc = "loop"
    /\ Len(signals) = Len(df_sigma)
    /\ rpc' = "done"
    /\ UNCHANGED <<df_sigma, window, min_periods, q_he, q_hx, q_le, q_lx,
                   current_state, signals>>
    /\ UNCHANGED pricingVars
    /\ UNCHANGED strategyVars
    /\ UNCHANGED batchVars

NextRegime ==
    \/ AddSignalsRolling
    \/ AddSignalsRow
    \/ AddSignalsReturn

SpecRegime == InitRegime /\ [][NextRegime]_vars

\* ------------------------------------------------------------------------
\* The pricing engine on its own: setup_market_data and get_price
\* ------------------------------------------------------------------------
\* Prices an option-chain file may quote, in money: 0, 0.40, 0.60, 10.50,
\* 15.00, 15.00004, 15.00006 and 100 dollars.
ChainPrices == {0, 40000, 60000, 1050000, 1500000, 1500004, 1500006, 10000000}

\* How a chain file records the deltas of its puts: signed, as magnitudes,
\* as magnitudes of which one is 0.0, or not at all (no delta column).
DeltaStyles == {"signed", "magnitude", "magnitude_zero", "none"}

\* The rows of day 1 in a chain file whose near strikes quote p: three calls
\* and two puts.
ChainRows(p) ==
    << [Type |-> "call", Strike |-> 105, Price |-> p, Delta |-> 40],
       [Type |-> "call", Strike |-> 110, Price |-> p, Delta |-> 30],
       [Type |-> "call", Strike |-> 132, Price |-> 40000, Delta |-> 10],
       [Type |-> "put", Strike |-> 90, Price |-> p, Delta |-> -30],
       [Type |-> "put", Strike |-> 72, Price |-> 40000, Delta |-> -10] >>

\* A row as a file of the style given records it.
StyledRow(row, style) ==
    IF style = "none"
    THEN [Type |-> row.Type, Strike |-> row.Strike, Price |-> row.Price]
    ELSE IF style = "signed" \/ row.Type = "call" THEN row
    ELSE IF style = "magnitude_zero" /\ row.Delta = -10
    THEN [row EXCEPT !.Delta = 0]
    ELSE [row EXCEPT !.Delta = Abs(@)]

\* The cache setup_market_data builds from such a file: day 1 holds the
\* rows, other days are absent.
ChainOf(p, style) ==
    (1 :> [k \in DOMAIN ChainRows(p) |-> StyledRow(ChainRows(p)[k], style)])

\* The cache built from a file that quotes no put.
CallsOnly == (1 :> SubSeq(ChainRows(60000), 1, 3))

\* The cache built from a file that holds the header line only: a
\* dictionary without a date.
NoDays == <<>>

\* What os.path.exists and pd.read_csv find for a file name.
Files ==
    {[exists |-> FALSE, readable |-> FALSE, chain |-> <<>>],
     [exists |-> TRUE, readable |-> FALSE, chain |-> <<>>]}
    \cup {[exists |-> TRUE, readable |-> TRUE, chain |-> <<ChainOf(p, "signed")>>] :
              p \in ChainPrices}
    \cup {[exists |-> TRUE, readable |-> TRUE, chain |-> <<ChainOf(60000, style)>>] :
              style \in DeltaStyles}
    \cup {[exists |-> TRUE, readable |-> TRUE, chain |-> <<CallsOnly>>],
          [exists |-> TRUE, readable |-> TRUE, chain |-> <<NoDays>>]}

\* The requests get_price is given: on the grid of the closed form, and with
\* a volatility that is zero or negative.
PriceRequests ==
    {q \in [date : 1..2, S : {80, 100, 120},
            K : {72, 79, 90, 93, 100, 107, 110, 121, 132},
            T : 0..1, r : RiskFreeVals, sigma : {-40, 0, 40, 160},
            option_type : {"call", "put"}] :
        /\ IF q.option_type = "call" THEN q.K \in {100, 107, 110, 121, 132}
           ELSE q.K \in {72, 79, 90, 93}
        /\ q.sigma <= 0 => (q.date = 2 /\ q.K \in {90, 110})}

\* The requests get_strike_by_delta is given.
StrikeRequests ==
    {q \in [date : 1..2, S : {80, 100, 120}, T : 1..2, r : RiskFreeVals,
            sigma : {40, 160}, target_delta : {-94, -30, -15, 6, 20, 94},
            option_type : {"call", "put"}] :
        (q.option_type = "put") <=> (q.target_delta < 0)}

\* The state of the other components while the pricing engine is exercised.
RegimeIdle ==
    /\ df_sigma = <<>>
    /\ window = 1 /\ min_periods = 1
    /\ q_he = <<>> /\ q_hx = <<>> /\ q_le = <<>> /\ q_lx = <<>>
    /\ current_state = NORMAL
    /\ signals = <<>>
    /\ rpc = "idle"

InitPricing ==
    /\ RegimeIdle
    /\ StrategyIdle
    /\ BatchIdle
    /\ is_setup = FALSE
    /\ market_cache = <<>>
    /\ setup_msg = ""
    /\ req = <<>>
    /\ ret = 0

\* A faulty variant of the set-up below: it does not ask whether the engine
\* is set up, and loads again.
SetupMarketDataReloads(f) ==
    /\ req = <<>>
    /\ IF ~f.exists
       THEN /\ setup_msg' = "not_found"
            /\ UNCHANGED <<is_setup, market_cache>>
       ELSE IF f.readable
            THEN /\ market_cache' = f.chain
                 /\ is_setup' = TRUE
                 /\ setup_msg' = "built"
            ELSE /\ market_cache' = <<>>
                 /\ setup_msg' = "failed"
                 /\ UNCHANGED is_setup
    /\ UNCHANGED <<req, ret>>
    /\ UNCHANGED <<regimeVars, strategyVars, batchVars>>

\* OptionPricing.setup_market_data(file_name), f what the file system holds
\* under that name.
SetupMarketData(f) ==
    /\ req = <<>>
    /\ IF is_setup THEN UNCHANGED <<is_setup, market_cache, setup_msg>>
       ELSE IF ~f.exists
            THEN /\ setup_msg' = "not_found"
                 /\ UNCHANGED <<is_setup, market_cache>>
       ELSE IF f.readable
            THEN /\ market_cache' = f.chain
                 /\ is_setup' = TRUE
                 /\ setup_msg' = "built"
            ELSE /\ market_cache' = <<>>
                 /\ setup_msg' = "failed"
                 /\ UNCHANGED is_setup
    /\ UNCHANGED <<req, ret>>
    /\ UNCHANGED regimeVars
    /\ UNCHANGED strategyVars
    /\ UNCHANGED batchVars

\* A call OptionPricing.get_price(date, S, K, T, r, sigma, option_type).
CallGetPrice(q) ==
    /\ req = <<>>
    /\ req' = <<q>>
    /\ ret' = GetPrice(q.date, q.S, q.K, q.T, q.r, q.sigma, q.option_type)
    /\ UNCHANGED <<is_setup, market_cache, setup_msg>>
    /\ UNCHANGED regimeVars
    /\ UNCHANGED strategyVars
    /\ UNCHANGED batchVars

\* A call OptionPricing.get_strike_by_delta(date, S, T, r, sigma,
\* target_delta, option_type).
CallGetStrikeByDelta(q) ==
    /\ req = <<>>
    /\ req' = <<q>>
    /\ ret' = GetStrikeByDelta(q.date, q.S, q.T, q.r, q.sigma, q.target_delta,
                               q.option_type)
    /\ UNCHANGED <<is_setup, market_cache, setup_msg>>
    /\ UNCHANGED regimeVars
    /\ UNCHANGED strategyVars
    /\ UNCHANGED batchVars

\* A call of _bsm_find_strike itself; the date of q is not an argument.
CallBsmFindStrike(q) ==
    /\ req = <<>>
    /\ req' = <<[fn |-> "_bsm_find_strike", args |-> q]>>
    /\ ret' = BsmFindStrikeFine(q.S, q.T, q.r, q.sigma, q.target_delta,
                                q.option_type)
    /\ UNCHANGED <<is_setup, market_cache, setup_msg>>
    /\ UNCHANGED regimeVars
    /\ UNCHANGED strategyVars
    /\ UNCHANGED batchVars

\* The caller takes the value returned; the engine is ready for the next
\* call.
ReturnToCaller ==
    /\ req # <<>>
    /\ req' = <<>>
    /\ ret' = 0
    /\ UNCHANGED <<is_setup, market_cache, setup_msg>>
    /\ UNCHANGED regimeVars
    /\ UNCHANGED strategyVars
    /\ UNCHANGED batchVars

NextPricing ==
    \/ \E f \in Files : SetupMarketData(f)
    \/ \E q \in PriceRequests : CallGetPrice(q)
    \/ \E q \in StrikeRequests : CallGetStrikeByDelta(q)
    \/ \E q \in {x \in StrikeRequests : x.date = 1} : CallBsmFindStrike(q)
    \/ ReturnToCaller

SpecPricing == InitPricing /\ [][NextPricing]_vars

\* ------------------------------------------------------------------------
\* Properties of the pricing engine
\* ------------------------------------------------------------------------
\* The call in progress is one of get_price, of get_strike_by_delta.
IsPriceReq == req # <<>> /\ "K" \in DOMAIN req[1]
IsStrikeReq == req # <<>> /\ "target_delta" \in DOMAIN req[1]

\* The theoretical price of the last request.
ReqTheo == BsmPriceFormula(req[1].S, req[1].K, req[1].T, req[1].r,
                           req[1].sigma, req[1].option_type)
\* The empirical price the lookup finds for the last request, <<>> if none.
ReqMarket == LookupMarketPrice(req[1].date, req[1].K, req[1].option_type)

\* A step that is a call of get_price: it leaves the cache as it was, and
\* req and ret are its arguments and its return value afterwards.
IsGetPriceStep ==
    /\ req' # <<>> /\ "K" \in DOMAIN req'[1]
    /\ UNCHANGED <<is_setup, market_cache>>

\* With an empirical price m found and a theoretical price t > 0, ret is t
\* when |m-t|/t > 50% and |m-t| > 0.50, and m otherwise.
BreakerRelativeToTheo ==
    (ReqMarket # <<>> /\ ReqTheo > 0) =>
        LET m == ReqMarket[1]
            t == ReqTheo
        IN  ret = (IF 2 * Abs(m - t) > t /\ Abs(m - t) > 50000 THEN t ELSE m)

\* With an empirical price m found and a theoretical price t, ret is t when
\* |m-t|/(t+0.0001) > 50% and |m-t| > 0.50, and m otherwise.
BreakerRelativeToGuarded ==
    ReqMarket # <<>> =>
        LET m == ReqMarket[1]
            t == ReqTheo
        IN  /\ ret = (IF 2 * Abs(m - t) > t + 10 /\ Abs(m - t) > 50000
                      THEN t ELSE m)
            /\ (m = 10 * t /\ Abs(m - t) > 50000) => ret = t
            /\ 10 * Abs(m - t) <= t => ret = m

\* C9 as stated: when the lookup finds an empirical price m for a request
\* of theoretical price t, get_price returns t if |m-t|/t > 50% and
\* |m-t| > 0.50, and m otherwise.
C9_BreakerAsStated == [][IsGetPriceStep => BreakerRelativeToTheo']_vars

\* C9 amended: when the lookup finds an empirical price m for a request of
\* theoretical price t, get_price returns t if |m-t|/(t+0.0001) > 50% and
\* |m-t| > 0.50, and m otherwise; in particular m = 10 t with |m-t| > 0.50
\* gives t, and m within 10% of t gives m.
C9_CircuitBreaker == [][IsGetPriceStep => BreakerRelativeToGuarded']_vars

\* The breaker has tripped on an empirical price of ten times the
\* theoretical one.
C9_Witness ==
    /\ is_setup
    /\ IsPriceReq /\ ReqMarket # <<>>
    /\ ReqTheo > 0
    /\ ReqMarket[1] = 10 * ReqTheo
    /\ ret = ReqTheo

\* ------------------------------------------------------------------------
\* Properties of the regime engine
\* ------------------------------------------------------------------------
\* The last row before row i whose thresholds are defined, 0 if there is none.
PrevDefined(i) ==
    LET js == {j \in 1..(i - 1) : q_he[j] # NaN}
    IN  IF js = {} THEN 0 ELSE CHOOSE j \in js : \A k \in js : k <= j

\* The rows labelled so far whose thresholds are defined.
DefinedRows == {i \in 1..Len(signals) : q_he[i] # NaN}

\* C5: among the rows with defined thresholds, a row that follows a High row
\* is High again unless its value is below its own high-exit quantile, and a
\* row that follows a Low row is Low again unless its value is above its own
\* low-exit quantile (it is then Normal); the enter quantiles play no part.
C5_Hysteresis ==
    \A i \in DefinedRows :
        LET j == PrevDefined(i)
            val == Val100(df_sigma[i])
        IN  j # 0 =>
              /\ signals[j] = HIGH =>
                    signals[i] = (IF FLt(val, q_hx[i]) THEN NORMAL ELSE HIGH)
              /\ signals[j] = LOW =>
                    signals[i] = (IF FGt(val, q_lx[i]) THEN NORMAL ELSE LOW)

\* A High row followed by a row whose value is strictly under the high-enter
\* quantile and that is High all the same.
C5_Witness ==
    \E i \in DefinedRows :
        /\ PrevDefined(i) # 0
        /\ signals[PrevDefined(i)] = HIGH
        /\ FLt(Val100(df_sigma[i]), q_he[i])
        /\ signals[i] = HIGH

\* C6: a row with defined thresholds that the engine reaches in the Normal
\* state (no earlier row with thresholds, or the last such row Normal) is
\* High iff its value is above the high-enter quantile, Low iff its value is
\* below the low-enter quantile, and Normal otherwise.
C6_FromNormal ==
    \A i \in DefinedRows :
        LET j == PrevDefined(i)
            val == Val100(df_sigma[i])
        IN  (j = 0 \/ signals[j] = NORMAL) =>
              /\ signals[i] = HIGH <=> FGt(val, q_he[i])
              /\ signals[i] = LOW <=> FLt(val, q_le[i])
              /\ signals[i] = NORMAL <=>
                    (~FGt(val, q_he[i]) /\ ~FLt(val, q_le[i]))

\* All three outcomes from Normal in one run.
C6_Witness ==
    \E a, b, c \in DefinedRows :
        /\ \A i \in {a, b, c} : PrevDefined(i) = 0 \/ signals[PrevDefined(i)] = NORMAL
        /\ signals[a] = HIGH /\ signals[b] = LOW /\ signals[c] = NORMAL

\* C7 as stated: each of the first min_periods rows is labelled Normal.
C7_FirstMinPeriodsRowsNormal ==
    \A i \in 1..Len(signals) : i <= min_periods => signals[i] = NORMAL

\* C7 amended: each of the first min_periods - 1 rows is labelled Normal,
\* whatever the values of the column.
C7_ColdStart ==
    \A i \in 1..Len(signals) : i < min_periods => signals[i] = NORMAL

\* Two cold-start rows with a jump in the values, both labelled.
C7_Witness ==
    /\ min_periods >= 3
    /\ Len(signals) >= 2
    /\ df_sigma[1] = 40 /\ df_sigma[2] = 80

\* The column with every row after row i replaced by the value fill.
WithTail(col, i, fill) ==
    [k \in 1..Len(col) |-> IF k <= i THEN col[k] ELSE fill]

\* C8: the labels of rows 1..i are those add_signals gives to any column
\* with the same rows 1..i: they equal the labels of the column whose later
\* rows are all replaced by one value, for each replacement value; and they
\* equal the labels of a second run over the same column.
C8_NoLookAhead ==
    LET i == Len(signals)
    IN  (rpc = "loop" /\ i >= 1) =>
          /\ \A fill \in SigmaVals :
                AddSignalsLabels(WithTail(df_sigma, i, fill),
                                 window, min_periods, i) = signals
          /\ AddSignalsLabels(df_sigma, window, min_periods, i) = signals

\* Labels that are not all Normal, with later rows still to come that hold
\* more than one value.
C8_Witness ==
    LET i == Len(signals)
    IN  /\ rpc = "loop"
        /\ i >= 2 /\ i + 2 <= Len(df_sigma)
        /\ df_sigma[i + 1] # df_sigma[i + 2]
        /\ \E k \in 1..i : signals[k] # NORMAL

\* ------------------------------------------------------------------------
\* Strategies on the common account: src/src/strategy.py
\* An account a is [cash, btc, positions, stage]; a position is
\* [type, side, strike, days_left, size].
\* ------------------------------------------------------------------------
\* premium * size: money per unit times thousandths of a unit, in money.
MulQty(p, q) == (p \div UnitScale) * q + ((p % UnitScale) * q) \div UnitScale
\* x * (pct / 100)
Pct(x, pct) == (x \div 100) * pct + ((x % 100) * pct) \div 100
\* quantity * price, in money.
SpotValue(q, price) == q * price * MoneyPerMilli
\* amount / price, in thousandths of a unit.
QtyFor(amount, price) == amount \div (price * MoneyPerMilli)
\* price * otm, otm in percent.
OtmStrike(price, otm) == (price * otm) \div 100

\* Keyword defaults of the strategy classes, in percent.
put_otm == 90
call_otm == 110
protect == 90
cap == 110
slip == 2
\* sell_option keeps 0.98 of the premium, buy_option pays 1.02 of it.
SellNet == 98
BuyGross == 102
\* buy_spot trades only above 10 dollars of cash.
MinCash == 10
\* The smallest size worth selling, 0.001, in thousandths.
DustSize == 1

\* get_dynamic_skew (src/run_backtest.py), volatilities in percent.
GetDynamicSkew(dvol) == 2 + Max(0, ((dvol - 60) * 20) \div 100)

\* bsm_price (src/run_backtest.py), T_days in days.
BsmPrice(S, K, T_days, r, sigma, option_type) ==
    IF T_days <= 0 THEN Intrinsic(S, K, option_type)
    ELSE IF sigma <= 0 THEN Intrinsic(S, K, option_type)
    ELSE BsmClosedForm(S, K, T_days, sigma, option_type)

RemoveAt(seq, k) == SubSeq(seq, 1, k - 1) \o SubSeq(seq, k + 1, Len(seq))

\* BaseStrategy.buy_spot
BuySpot(a, price, pct) ==
    IF a.cash > MinCash * MoneyScale
    THEN LET amt == Pct(a.cash, pct)
         IN  [a EXCEPT !.btc = @ + QtyFor(amt, price), !.cash = @ - amt]
    ELSE a

\* A faulty variant of sell_option: the position loses a day on the row it is
\* opened on.
SellOptionDayShort(a, strike, days, size, premium, opt_type) ==
    LET net == Pct(MulQty(premium, size), SellNet)
    IN  [a EXCEPT !.cash = @ + net,
                  !.positions = Append(@, [type |-> opt_type, side |-> "short",
                                           strike |-> strike, days_left |-> days - 1,
                                           size |-> size])]

\* A faulty variant of sell_option: the whole premium is received.
SellOptionAtMid(a, strike, days, size, premium, opt_type) ==
    [a EXCEPT !.cash = @ + MulQty(premium, size),
              !.positions = Append(@, [type |-> opt_type, side |-> "short",
                                       strike |-> strike, days_left |-> days,
                                       size |-> size])]

\* BaseStrategy.sell_option
SellOption(a, strike, days, size, premium, opt_type) ==
    LET net == Pct(MulQty(premium, size), SellNet)
    IN  [a EXCEPT !.cash = @ + net,
                  !.positions = Append(@, [type |-> opt_type, side |-> "short",
                                           strike |-> strike, days_left |-> days,
                                           size |-> size])]

\* BaseStrategy.buy_option
BuyOption(a, strike, days, size, premium, opt_type) ==
    LET cost == Pct(MulQty(premium, size), BuyGross)
    IN  [a EXCEPT !.cash = @ - cost,
                  !.positions = Append(@, [type |-> opt_type, side |-> "long",
                                           strike |-> strike, days_left |-> days,
                                           size |-> size])]

\* BaseStrategy._settle: cash settlement of the payoff.
BaseSettle(a, pos, spot) ==
    LET payoff == IF pos.type = "call" THEN Max(0, spot - pos.strike)
                  ELSE Max(0, pos.strike - spot)
    IN  IF payoff > 0
        THEN IF pos.side = "short"
             THEN [a EXCEPT !.cash = @ - SpotValue(pos.size, payoff)]
             ELSE [a EXCEPT !.cash = @ + SpotValue(pos.size, payoff)]
        ELSE a

\* A faulty variant of the Wheel's _settle: the cash settlement of the base
\* class.
WheelSettleInCash(a, pos, spot) == BaseSettle(a, [pos EXCEPT !.side = "short"], spot)

\* A faulty variant of the Wheel's _settle: every expiry is an assignment.
WheelSettleAlwaysAssigned(a, pos, spot) ==
    IF pos.type = "put"
    THEN [a EXCEPT !.cash = @ - SpotValue(pos.size, pos.strike),
                   !.btc = @ + pos.size, !.stage = "CC"]
    ELSE [a EXCEPT !.btc = @ - pos.size,
                   !.cash = @ + SpotValue(pos.size, pos.strike), !.stage = "CSP"]

\* WheelStrategy._settle of strategy.py: physical settlement.
WheelSettle(a, pos, spot) ==
    LET strike == pos.strike
        size == pos.size
    IN  IF pos.type = "put" /\ spot < strike
        THEN LET cost == SpotValue(size, strike)
             IN  IF a.cash >= cost
                 THEN [a EXCEPT !.cash = @ - cost, !.btc = @ + size, !.stage = "CC"]
                 ELSE [a EXCEPT !.cash = @ - SpotValue(size, strike - spot)]
        ELSE IF pos.type = "call" /\ spot > strike
        THEN LET revenue == SpotValue(size, strike)
             IN  IF a.btc >= size
                 THEN [a EXCEPT !.btc = @ - size, !.cash = @ + revenue, !.stage = "CSP"]
                 ELSE [a EXCEPT !.cash = @ - SpotValue(size, spot - strike)]
        ELSE a

\* The _settle the class of the running strategy provides.
Settle(knd, a, pos, spot) ==
    IF knd = "Wheel" THEN WheelSettle(a, pos, spot) ELSE BaseSettle(a, pos, spot)

\* A faulty variant of the expiry test: one row late.
ExpiredLate(pos) == pos.days_left < 0
\* Whether the loop of run settles a position after the decrement.
Expired(pos) == pos.days_left <= 0

\* A faulty variant of the loop below: it stops at the first position it
\* settles.
SettleLoopStopsAfterOne(knd, a, k, spot) ==
    LET RECURSIVE Walk(_, _)
        Walk(b, j) ==
            IF j = 0 THEN b
            ELSE LET pos == [b.positions[j] EXCEPT !.days_left = @ - 1]
                     dec == [b EXCEPT !.positions[j] = pos]
                 IN  IF Expired(pos)
                     THEN [Settle(knd, dec, pos, spot) EXCEPT
                               !.positions = RemoveAt(@, j)]
                     ELSE Walk(dec, j - 1)
    IN  Walk(a, k)

\* BaseStrategy.run, lines 16-21: from the last position to the first,
\* decrement days_left, settle and pop what reached zero.
RECURSIVE SettleLoop(_, _, _, _)
SettleLoop(knd, a, k, spot) ==
    IF k = 0 THEN a
    ELSE LET pos == [a.positions[k] EXCEPT !.days_left = @ - 1]
             dec == [a EXCEPT !.positions[k] = pos]
         IN  IF Expired(pos)
             THEN LET settled == Settle(knd, dec, pos, spot)
                  IN  SettleLoop(knd, [settled EXCEPT !.positions = RemoveAt(@, k)],
                                 k - 1, spot)
             ELSE SettleLoop(knd, dec, k - 1, spot)

\* A faulty variant of the next_signal below: half of the cash is invested.
BuyHoldInvestsHalf(a, rw, days) ==
    IF a.btc = 0 /\ a.cash > 0 THEN BuySpot(a, rw.price, 50) ELSE a

\* BuyHoldStrategy.next_signal
BuyHoldNextSignal(a, rw, days) ==
    IF a.btc = 0 /\ a.cash > 0 THEN BuySpot(a, rw.price, 100) ELSE a

\* CoveredCallStrategy.next_signal
CoveredCallNextSignal(a, rw, days) ==
    LET b == IF a.btc = 0 THEN BuySpot(a, rw.price, 100) ELSE a
    IN  IF b.btc > 0 /\ b.positions = <<>>
        THEN LET strike == OtmStrike(rw.price, call_otm)
                 prem == BsmPrice(rw.price, strike, days, rw.r, rw.sigma, "call")
             IN  SellOption(b, strike, days, b.btc, prem, "call")
        ELSE b

\* A faulty variant of the next_signal below: no test of self.positions.
CashSecuredPutAlwaysSells(a, rw, days) ==
    LET strike == OtmStrike(rw.price, put_otm)
        vol == rw.sigma + GetDynamicSkew(rw.sigma)
        prem == BsmPrice(rw.price, strike, days, rw.r, vol, "put")
    IN  IF a.cash > 0
        THEN LET size == QtyFor(a.cash, strike)
             IN  IF size > DustSize
                 THEN SellOption(a, strike, days, size, prem, "put")
                 ELSE a
        ELSE a

\* A faulty variant of the next_signal below: the put is sized on twice the
\* cash.
CashSecuredPutOnMargin(a, rw, days) ==
    IF a.positions = <<>>
    THEN LET strike == OtmStrike(rw.price, put_otm)
             vol == rw.sigma + GetDynamicSkew(rw.sigma)
             prem == BsmPrice(rw.price, strike, days, rw.r, vol, "put")
         IN  IF a.cash > 0
             THEN LET size == QtyFor(2 * a.cash, strike)
                  IN  IF size > DustSize
                      THEN SellOption(a, strike, days, size, prem, "put")
                      ELSE a
             ELSE a
    ELSE a

\* A faulty variant of the decision: the put is given one day more to run.
CashSecuredPutOneDayMore(a, rw, days) ==
    IF a.positions = <<>> /\ a.cash > 0
    THEN LET strike == OtmStrike(rw.price, put_otm)
             vol == rw.sigma + GetDynamicSkew(rw.sigma)
         IN  SellOption(a, strike, days + 1, QtyFor(a.cash, strike),
                        BsmPrice(rw.price, strike, days, rw.r, vol, "put"), "put")
    ELSE a

\* CashSecuredPutStrategy.next_signal
CashSecuredPutNextSignal(a, rw, days) ==
    IF a.positions = <<>>
    THEN LET strike == OtmStrike(rw.price, put_otm)
             vol == rw.sigma + GetDynamicSkew(rw.sigma)
             prem == BsmPrice(rw.price, strike, days, rw.r, vol, "put")
         IN  IF a.cash > 0
             THEN LET size == QtyFor(a.cash, strike)
                  IN  IF size > DustSize
                      THEN SellOption(a, strike, days, size, prem, "put")
                      ELSE a
             ELSE a
    ELSE a

\* A faulty variant of the rebalancing: cash is topped up to the target and
\* no underlying is sold for it.
CollarRebalanceKeepsHoldings(a, price) ==
    LET target_cash == Pct(a.cash + SpotValue(a.btc, price), 5)
    IN  IF a.cash < target_cash /\ SpotValue(a.btc, price) > target_cash - a.cash
        THEN [a EXCEPT !.cash = target_cash]
        ELSE a

\* CollarStrategy.next_signal, lines 110-116: keep 5% of the equity in cash.
CollarRebalance(a, price) ==
    LET total_equity == a.cash + SpotValue(a.btc, price)
        target_cash == Pct(total_equity, 5)
    IN  IF a.cash < target_cash
        THEN LET shortfall == target_cash - a.cash
             IN  IF SpotValue(a.btc, price) > shortfall
                 THEN [a EXCEPT !.btc = @ - QtyFor(shortfall, price),
                                !.cash = @ + shortfall]
                 ELSE a
        ELSE a

\* A faulty variant of the next_signal below: the put is bought, the call
\* is not sold.
CollarPutLegOnly(a, rw, days) ==
    LET price == rw.price
        b == CollarRebalance(a, price)
        c == IF b.btc = 0 /\ b.cash > 0 THEN BuySpot(b, price, 95) ELSE b
    IN  IF c.btc > 0 /\ c.positions = <<>>
        THEN LET k_put == OtmStrike(price, protect)
                 vol_put == rw.sigma + GetDynamicSkew(rw.sigma)
                 p_put == BsmPrice(price, k_put, days, rw.r, vol_put, "put")
             IN  IF c.cash > MulQty(Pct(p_put, BuyGross), c.btc)
                 THEN BuyOption(c, k_put, days, c.btc, p_put, "put")
                 ELSE c
        ELSE c

\* CollarStrategy.next_signal
CollarNextSignal(a, rw, days) ==
    LET price == rw.price
        b == CollarRebalance(a, price)
        c == IF b.btc = 0 /\ b.cash > 0 THEN BuySpot(b, price, 95) ELSE b
    IN  IF c.btc > 0 /\ c.positions = <<>>
        THEN LET k_put == OtmStrike(price, protect)
                 k_call == OtmStrike(price, cap)
                 vol_put == rw.sigma + GetDynamicSkew(rw.sigma)
                 p_put == BsmPrice(price, k_put, days, rw.r, vol_put, "put")
                 p_call == BsmPrice(price, k_call, days, rw.r, rw.sigma, "call")
                 cost == MulQty(Pct(p_put, BuyGross), c.btc)
                             - MulQty(Pct(p_call, SellNet), c.btc)
             IN  IF c.cash > cost
                 THEN SellOption(BuyOption(c, k_put, days, c.btc, p_put, "put"),
                                 k_call, days, c.btc, p_call, "call")
                 ELSE c
        ELSE c

\* A faulty variant of the next_signal below: the put is sized on twice the
\* cash.
WheelNextSignalOnMargin(a, rw, days) ==
    IF Len(a.positions) > 0 THEN a
    ELSE IF a.stage = "CSP"
    THEN LET strike == OtmStrike(rw.price, put_otm)
             prem == Pct(BsmPrice(rw.price, strike, days, rw.r,
                                  rw.sigma + GetDynamicSkew(rw.sigma), "put"),
                         100 - slip)
             size == QtyFor(2 * a.cash, strike)
         IN  IF size > DustSize
             THEN SellOption(a, strike, days, size, prem, "put")
             ELSE a
    ELSE IF a.btc < DustSize THEN [a EXCEPT !.stage = "CSP"]
    ELSE LET strike == OtmStrike(rw.price, call_otm)
             prem == Pct(BsmPrice(rw.price, strike, days, rw.r, rw.sigma, "call"),
                         100 - slip)
         IN  SellOption(a, strike, days, a.btc, prem, "call")

\* WheelStrategy.next_signal of strategy.py
WheelNextSignal(a, rw, days) ==
    IF Len(a.positions) > 0 THEN a
    ELSE LET price == rw.price
         IN  IF a.stage = "CSP"
             THEN LET b == IF a.btc > DustSize
                           THEN [a EXCEPT !.cash = @ + SpotValue(a.btc, price),
                                          !.btc = 0]
                           ELSE a
                      strike == OtmStrike(price, put_otm)
                      vol == rw.sigma + GetDynamicSkew(rw.sigma)
                      prem == Pct(BsmPrice(price, strike, days, rw.r, vol, "put"),
                                  100 - slip)
                  IN  IF b.cash > 0
                      THEN LET size == QtyFor(b.cash, strike)
                           IN  IF size > DustSize
                               THEN SellOption(b, strike, days, size, prem, "put")
                               ELSE b
                      ELSE b
             ELSE IF a.stage = "CC"
             THEN IF a.btc < DustSize
                  THEN [a EXCEPT !.stage = "CSP"]
                  ELSE LET strike == OtmStrike(price, call_otm)
                           prem == Pct(BsmPrice(price, strike, days, rw.r,
                                                rw.sigma, "call"), 100 - slip)
                       IN  SellOption(a, strike, days, a.btc, prem, "call")
             ELSE a

\* Keyword defaults of RegimeCollarStrategy, in percent.
regime_protect == 95
regime_cap == 105

\* RegimeCollarStrategy.next_signal
RegimeCollarNextSignal(a, rw, days) ==
    IF Len(a.positions) > 0 THEN a
    ELSE IF a.btc = 0 /\ ~(a.cash > 0) THEN a
    ELSE LET price == rw.price
             b == IF a.btc = 0 THEN BuySpot(a, price, 80) ELSE a
         IN  IF rw.vol_gap < 0
             THEN LET k_put == OtmStrike(price, regime_protect)
                      k_call == OtmStrike(price, regime_cap)
                      vol_put == rw.sigma + GetDynamicSkew(rw.sigma)
                      p_put == BsmPrice(price, k_put, days, rw.r, vol_put, "put")
                      p_call == BsmPrice(price, k_call, days, rw.r, rw.sigma, "call")
                      cost == MulQty(Pct(p_put, BuyGross), b.btc)
                                  - MulQty(Pct(p_call, SellNet), b.btc)
                  IN  IF b.cash > cost
                      THEN SellOption(BuyOption(b, k_put, days, b.btc, p_put, "put"),
                                      k_call, days, b.btc, p_call, "call")
                      ELSE b
             ELSE LET strike == OtmStrike(price, regime_cap)
                      prem == BsmPrice(price, strike, days, rw.r, rw.sigma, "call")
                  IN  SellOption(b, strike, days, b.btc, prem, "call")

\* ChameleonStrategy.next_signal
ChameleonNextSignal(a, rw, days) ==
    IF Len(a.positions) > 0 THEN a
    ELSE LET price == rw.price
             b == CollarRebalance(a, price)
         IN  IF rw.vol_gap < 0
             THEN LET c == IF b.btc = 0 /\ b.cash > 0
                           THEN BuySpot(b, price, 95) ELSE b
                  IN  IF c.btc > 0
                      THEN LET k_put == OtmStrike(price, 95)
                               k_call == OtmStrike(price, 110)
                               vol_put == rw.sigma + GetDynamicSkew(rw.sigma)
                               p_put == BsmPrice(price, k_put, days, rw.r, vol_put, "put")
                               p_call == BsmPrice(price, k_call, days, rw.r,
                                                  rw.sigma, "call")
                               cost == MulQty(Pct(p_put, BuyGross), c.btc)
                                           - MulQty(Pct(p_call, SellNet), c.btc)
                           IN  IF c.cash > cost
                               THEN SellOption(BuyOption(c, k_put, days, c.btc,
                                                         p_put, "put"),
                                               k_call, days, c.btc, p_call, "call")
                               ELSE c
                      ELSE c
             ELSE LET c == IF b.btc > 0
                           THEN [b EXCEPT !.cash = @ + SpotValue(b.btc, price),
                                          !.btc = 0]
                           ELSE b
                  IN  IF c.cash > 0
                      THEN LET strike == OtmStrike(price, 90)
                               vol == rw.sigma + GetDynamicSkew(rw.sigma)
                               prem == BsmPrice(price, strike, days, rw.r, vol, "put")
                               size == QtyFor(c.cash, strike)
                           IN  IF size > DustSize
                               THEN SellOption(c, strike, days, size, prem, "put")
                               ELSE c
                      ELSE c

\* The next_signal the class of the running strategy provides.
NextSignal(knd, a, rw, days) ==
    CASE knd = "BuyHold" -> BuyHoldNextSignal(a, rw, days)
      [] knd = "CoveredCall" -> CoveredCallNextSignal(a, rw, days)
      [] knd = "CashSecuredPut" -> CashSecuredPutNextSignal(a, rw, days)
      [] knd = "Collar" -> CollarNextSignal(a, rw, days)
      [] knd = "RegimeCollar" -> RegimeCollarNextSignal(a, rw, days)
      [] knd = "Chameleon" -> ChameleonNextSignal(a, rw, days)
      [] knd = "Wheel" -> WheelNextSignal(a, rw, days)

\* A faulty variant of opt_val: every option counted as a liability.
OptValShortOnly(a, rw) ==
    LET RECURSIVE Sum(_)
        Sum(k) == IF k = 0 THEN 0
                  ELSE LET pos == a.positions[k]
                           p == BsmPrice(rw.price, pos.strike, pos.days_left,
                                         rw.r, rw.sigma, pos.type)
                       IN  Sum(k - 1) - MulQty(p, pos.size)
    IN  Sum(Len(a.positions))

\* BaseStrategy._record, lines 38-42: the signed value of the open options.
OptVal(a, rw) ==
    LET RECURSIVE Sum(_)
        Sum(k) == IF k = 0 THEN 0
                  ELSE LET pos == a.positions[k]
                           p == BsmPrice(rw.price, pos.strike, pos.days_left,
                                         rw.r, rw.sigma, pos.type)
                       IN  IF pos.side = "short"
                           THEN Sum(k - 1) - MulQty(p, pos.size)
                           ELSE Sum(k - 1) + MulQty(p, pos.size)
    IN  Sum(Len(a.positions))

\* BaseStrategy._record: the record appended to history.
RecordOf(a, rw, date) ==
    [date |-> date,
     equity |-> a.cash + SpotValue(a.btc, rw.price) + OptVal(a, rw),
     spot |-> rw.price,
     gap |-> rw.vol_gap]

\* ------------------------------------------------------------------------
\* Delta-targeted strategies: src/src/strategy_wheel.py, strategy_csp.py
\* A book b is [cash, stock_holdings, state, current_option]; an option is
\* [type, strike, expiry_idx, contracts].  Rows are one calendar day apart,
\* so the date of a row is its number and T in days stands for T/365.
\* ------------------------------------------------------------------------
\* Keyword defaults of target_delta, in percent.
wheel_target_delta == 20
csp_target_delta == -30

\* A faulty variant of the expiry check: an assigned call settled in cash.
WheelRunExpiryCallInCash(b, rw, idx) ==
    IF b.current_option # <<>> /\ idx >= b.current_option[1].expiry_idx
    THEN LET o == b.current_option[1]
             K == o.strike
             S == rw.price
         IN  IF o.type = "put" /\ S < K
             THEN [b EXCEPT !.cash = @ - SpotValue(o.contracts, K),
                            !.stock_holdings = @ + o.contracts,
                            !.state = "STOCK",
                            !.current_option = <<>>]
             ELSE IF o.type = "call" /\ S > K
             THEN [b EXCEPT !.cash = @ - SpotValue(o.contracts, S - K),
                            !.current_option = <<>>]
             ELSE [b EXCEPT !.current_option = <<>>]
    ELSE b

\* WheelStrategy.run of strategy_wheel.py, lines 57-92: the expiry check.
WheelRunExpiry(b, rw, idx) ==
    IF b.current_option # <<>> /\ idx >= b.current_option[1].expiry_idx
    THEN LET o == b.current_option[1]
             K == o.strike
             S == rw.price
         IN  IF o.type = "put" /\ S < K
             THEN [b EXCEPT !.cash = @ - SpotValue(o.contracts, K),
                            !.stock_holdings = @ + o.contracts,
                            !.state = "STOCK",
                            !.current_option = <<>>]
             ELSE IF o.type = "call" /\ S > K
             THEN [b EXCEPT !.cash = @ + SpotValue(o.contracts, K),
                            !.stock_holdings = @ - o.contracts,
                            !.state = "CASH",
                            !.current_option = <<>>]
             ELSE [b EXCEPT !.current_option = <<>>]
    ELSE b

\* WheelStrategy.run of strategy_wheel.py, lines 97-143: open a new option.
\* idx and len count rows from 1, so i + target_dte < len(df) reads
\* idx + target_dte <= len.
WheelRunOpen(b, rw, idx, target_dte, len) ==
    IF b.current_option = <<>> /\ idx + target_dte <= len
    THEN LET S == rw.price
         IN  IF b.state = "CASH"
             THEN LET K == GetStrikeByDelta(idx, S, target_dte, rw.r, rw.sigma,
                                            0 - Abs(wheel_target_delta), "put")
                      premium == GetPrice(idx, S, K, target_dte, rw.r, rw.sigma, "put")
                  IN  IF K > 0
                      THEN LET contracts == QtyFor(b.cash, K)
                           IN  [b EXCEPT !.cash = @ + MulQty(premium, contracts),
                                         !.current_option =
                                             <<[type |-> "put", strike |-> K,
                                                expiry_idx |-> idx + target_dte,
                                                contracts |-> contracts]>>]
                      ELSE b
             ELSE IF b.state = "STOCK"
             THEN LET K == GetStrikeByDelta(idx, S, target_dte, rw.r, rw.sigma,
                                            Abs(wheel_target_delta), "call")
                      premium == GetPrice(idx, S, K, target_dte, rw.r, rw.sigma, "call")
                      contracts == b.stock_holdings
                  IN  IF contracts > 0
                      THEN [b EXCEPT !.cash = @ + MulQty(premium, contracts),
                                     !.current_option =
                                         <<[type |-> "call", strike |-> K,
                                            expiry_idx |-> idx + target_dte,
                                            contracts |-> contracts]>>]
                      ELSE b
             ELSE b
    ELSE b

\* A faulty variant of the nav: the underlying held is left out.
WheelRunNavCashOnly(b, rw, idx) ==
    IF b.current_option # <<>>
    THEN LET o == b.current_option[1]
             days_left == Max(0, o.expiry_idx - idx)
             curr_opt_price == GetPrice(idx, rw.price, o.strike, days_left,
                                        rw.r, rw.sigma, o.type)
         IN  b.cash - MulQty(curr_opt_price, o.contracts)
    ELSE b.cash

\* WheelStrategy.run of strategy_wheel.py, lines 148-168: the day's nav.
WheelRunNav(b, rw, idx) ==
    LET nav == IF b.stock_holdings > 0
               THEN b.cash + SpotValue(b.stock_holdings, rw.price)
               ELSE b.cash
    IN  IF b.current_option # <<>>
        THEN LET o == b.current_option[1]
                 days_left == Max(0, o.expiry_idx - idx)
                 curr_opt_price == GetPrice(idx, rw.price, o.strike, days_left,
                                            rw.r, rw.sigma, o.type)
             IN  nav - MulQty(curr_opt_price, o.contracts)
        ELSE nav

\* CashSecuredPutStrategy.run of strategy_csp.py, lines 49-65.
CspRunExpiry(b, rw, idx) ==
    IF b.current_option # <<>> /\ idx >= b.current_option[1].expiry_idx
    THEN LET o == b.current_option[1]
         IN  IF rw.price < o.strike
             THEN [b EXCEPT !.cash = @ - SpotValue(o.contracts, o.strike - rw.price),
                            !.current_option = <<>>]
             ELSE [b EXCEPT !.current_option = <<>>]
    ELSE b

\* A faulty variant of the opening below: no test of the rows left.
CspRunOpenToTheEnd(b, rw, idx, target_dte, len) ==
    IF b.current_option = <<>>
    THEN LET K == GetStrikeByDelta(idx, rw.price, target_dte, rw.r, rw.sigma,
                                   csp_target_delta, "put")
         IN  [b EXCEPT !.cash = @ + MulQty(GetPrice(idx, rw.price, K, target_dte,
                                                    rw.r, rw.sigma, "put"),
                                           QtyFor(b.cash, K)),
                       !.current_option =
                           <<[type |-> "put", strike |-> K,
                              expiry_idx |-> idx + target_dte,
                              contracts |-> QtyFor(b.cash, K)]>>]
    ELSE b

\* CashSecuredPutStrategy.run of strategy_csp.py, lines 68-97.
CspRunOpen(b, rw, idx, target_dte, len) ==
    IF b.current_option = <<>> /\ idx + target_dte <= len
    THEN LET S == rw.price
             K == GetStrikeByDelta(idx, S, target_dte, rw.r, rw.sigma,
                                   csp_target_delta, "put")
             premium_per_share == GetPrice(idx, S, K, target_dte, rw.r, rw.sigma, "put")
             contracts == QtyFor(b.cash, K)
         IN  [b EXCEPT !.cash = @ + MulQty(premium_per_share, contracts),
                       !.current_option =
                           <<[type |-> "put", strike |-> K,
                              expiry_idx |-> idx + target_dte,
                              contracts |-> contracts]>>]
    ELSE b

\* CashSecuredPutStrategy.run of strategy_csp.py, lines 100-118.
CspRunNav(b, rw, idx) ==
    IF b.current_option # <<>>
    THEN LET o == b.current_option[1]
             days_left == Max(0, o.expiry_idx - idx)
             current_option_price == GetPrice(idx, rw.price, o.strike, days_left,
                                              rw.r, rw.sigma, "put")
         IN  b.cash - MulQty(current_option_price, o.contracts)
    ELSE b.cash

\* Keyword defaults of SmartWheelStrategy.__init__ and the arguments of its
\* private regime engine.
smart_regime_window == 365
smart_min_periods == 60
\* self.params of SmartWheelStrategy, in percent; Low has no entry.
SmartParams(regime) ==
    IF regime = HIGH
    THEN [put_delta |-> -15, call_delta |-> 30]
    ELSE [put_delta |-> -30, call_delta |-> 30]

\* A faulty variant of the switch below: it does not ask whether an option is
\* open.
SmartLowSwitchUnderOption(b, rw, regime) ==
    IF regime = LOW /\ b.state = "CASH" /\ rw.price > 0
    THEN [b EXCEPT !.stock_holdings = QtyFor(b.cash, rw.price),
                   !.cash = 0,
                   !.state = "STOCK"]
    ELSE b

\* SmartWheelStrategy.run, lines 112-123: in a Low regime cash buys the
\* underlying and no call is sold.
SmartLowSwitch(b, rw, regime) ==
    IF b.current_option = <<>> /\ regime = LOW /\ b.state = "CASH" /\ rw.price > 0
    THEN [b EXCEPT !.stock_holdings = QtyFor(b.cash, rw.price),
                   !.cash = 0,
                   !.state = "STOCK"]
    ELSE b

\* A faulty variant of the label: the one the caller's table carries.
SharedRegime(rw, labels, idx) == rw.regime_signal

\* regime of the row: the column regime_signal of the copy data, which holds
\* the labels of the private engine (lines 62-66, 84).
SmartRegime(rw, labels, idx) == labels[idx]

\* A faulty variant of the opening: the plain Wheel's, which asks for no
\* regime.
SmartOpenAnyRegime(b, rw, regime, idx, target_dte, len) ==
    WheelRunOpen(b, rw, idx, target_dte, len)

\* SmartWheelStrategy.run, lines 128-158: open a new option.
SmartOpen(b, rw, regime, idx, target_dte, len) ==
    IF b.current_option = <<>> /\ regime \in {NORMAL, HIGH}
       /\ idx + target_dte <= len
    THEN LET S == rw.price
             p == SmartParams(regime)
         IN  IF b.state = "CASH"
             THEN LET K == GetStrikeByDelta(idx, S, target_dte, rw.r, rw.sigma,
                                            p.put_delta, "put")
                      premium == GetPrice(idx, S, K, target_dte, rw.r, rw.sigma, "put")
                  IN  IF K > 0
                      THEN LET contracts == QtyFor(b.cash, K)
                           IN  [b EXCEPT !.cash = @ + MulQty(premium, contracts),
                                         !.current_option =
                                             <<[type |-> "put", strike |-> K,
                                                expiry_idx |-> idx + target_dte,
                                                contracts |-> contracts]>>]
                      ELSE b
             ELSE IF b.state = "STOCK"
             THEN LET K == GetStrikeByDelta(idx, S, target_dte, rw.r, rw.sigma,
                                            p.call_delta, "call")
                      premium == GetPrice(idx, S, K, target_dte, rw.r, rw.sigma, "call")
                  IN  IF b.stock_holdings > 0
                      THEN [b EXCEPT !.cash = @ + MulQty(premium, b.stock_holdings),
                                     !.current_option =
                                         <<[type |-> "call", strike |-> K,
                                            expiry_idx |-> idx + target_dte,
                                            contracts |-> b.stock_holdings]>>]
                      ELSE b
             ELSE b
    ELSE b

\* ------------------------------------------------------------------------
\* One run of one strategy over a table of df_len rows
\* ------------------------------------------------------------------------
\* Classes built on BaseStrategy (strategy.py) and the stand-alone classes
\* (strategy_wheel.py, strategy_csp.py, strategy_chamelon.py).
AccountKinds == {"BuyHold", "CoveredCall", "CashSecuredPut", "Collar",
                 "RegimeCollar", "Chameleon", "Wheel"}
\* The classes that read the column vol_gap (sigma - rv_30, in percent).
GapKinds == {"RegimeCollar", "Chameleon"}
DeltaKinds == {"WheelDelta", "CspDelta", "SmartWheel"}
\* initial_capital, in money: 200 dollars, and 5 cents, which buy less than
\* a thousandth of a unit at any strike of the grid.
Capitals == {200 * MoneyScale, MoneyScale \div 20}
\* The volatility of calm and of stressed rows, in percent, and a volatility
\* so extreme that the net premium of a collar exceeds the cash buffer.
CalmSigmas == {40, 160}
ExtremeSigma == 900
\* The rows a table may hold; regime_signal is the label the caller's table
\* carries on the row, and a spot of 0 is a fault of the data.
Rows ==
    [price : {0, 80, 100, 120}, sigma : CalmSigmas \cup {ExtremeSigma, 0},
     r : RiskFreeVals, vol_gap : {-5, 0, 5},
     regime_signal : {LOW, NORMAL, HIGH}]
\* The rows of the table a strategy of class knd is run over: vol_gap is
\* read as 0 where the class does not use the column, and is negative on
\* the rows of low volatility, positive on those of high volatility, where
\* it does.  The Chameleon also meets rows of extreme volatility that
\* realised volatility exceeds, the CoveredCall rows whose volatility is 0.
\* The caller's label varies on the rows of a SmartWheel; the faulty spot is
\* met by the BuyHold, which prices no option.
RowsFor(knd) ==
    {rw \in Rows :
        /\ rw.regime_signal \in (IF knd = "SmartWheel" THEN {LOW, HIGH}
                                  ELSE {NORMAL})
        /\ knd # "BuyHold" => rw.price > 0
        /\ IF knd \in GapKinds
           THEN \/ rw.sigma = 40 /\ rw.vol_gap < 0
                \/ rw.sigma = 160 /\ rw.vol_gap > 0
                \/ /\ knd = "Chameleon" /\ rw.sigma = ExtremeSigma
                   /\ rw.vol_gap < 0 /\ rw.price = 100
           ELSE /\ rw.vol_gap = 0
                /\ \/ rw.sigma \in CalmSigmas
                   \/ knd = "CoveredCall" /\ rw.sigma = 0 /\ rw.price = 100}

\* The sigma columns a SmartWheel is run over: its private engine labels no
\* row before the smart_min_periods-th, so the table opens with a stretch of
\* one volatility that ends one row short of it; up to MaxRows rows follow,
\* over which the volatility changes at most once.
SmartColumns ==
    UNION {{[i \in 1..(smart_min_periods - 1 + k) |->
                 IF i < smart_min_periods + j THEN w ELSE v] :
               w \in CalmSigmas, v \in CalmSigmas, j \in 0..k} : k \in 1..MaxRows}

Acct == [cash |-> cash, btc |-> btc, positions |-> positions, stage |-> stage]
Book == [cash |-> cash, stock_holdings |-> stock_holdings,
         state |-> wheel_state, current_option |-> current_option]

SetAcct(a) ==
    /\ cash' = a.cash /\ btc' = a.btc
    /\ positions' = a.positions /\ stage' = a.stage
    /\ UNCHANGED <<stock_holdings, wheel_state, current_option>>
SetBook(b) ==
    /\ cash' = b.cash /\ stock_holdings' = b.stock_holdings
    /\ wheel_state' = b.state /\ current_option' = b.current_option
    /\ UNCHANGED <<btc, positions, stage>>

\* __init__ of the strategy, and the locals of run before its loop.
Init ==
    /\ kind \in AccountKinds \cup DeltaKinds
    /\ IF kind = "SmartWheel"
       THEN \* _calculate_local_regime: the private engine is given a copy of
            \* the sigma column; its loop is run in step with the loop of run,
            \* a label depending on no later row.
            /\ df_sigma \in SmartColumns
            /\ window = smart_regime_window /\ min_periods = smart_min_periods
            /\ signals = <<>>
            /\ q_he = <<>> /\ q_hx = <<>> /\ q_le = <<>> /\ q_lx = <<>>
            /\ current_state = NORMAL /\ rpc = "loop"
            /\ df_len = Len(df_sigma)
            /\ cash = 200 * MoneyScale
       ELSE /\ RegimeIdle
            /\ df_len \in 1..MaxRows
            /\ cash \in Capitals
    /\ PricingIdle
    /\ BatchIdle
    /\ tenor \in 1..MaxDays
    /\ row_no = 1
    /\ cur_row = [price |-> 100, sigma |-> 40, r |-> 4, vol_gap |-> 0,
                  regime_signal |-> NORMAL]
    /\ pc = "settle"
    /\ btc = 0 /\ positions = <<>> /\ stage = "CSP" /\ history = <<>>
    /\ stock_holdings = 0 /\ wheel_state = "CASH" /\ current_option = <<>>
    /\ portfolio_value = <<>>

\* The loop body reads row rw and settles what expires on it:
\* BaseStrategy.run lines 14-21, strategy_wheel.py lines 48-92,
\* strategy_csp.py lines 42-65, strategy_chamelon.py lines 71-107.  The rows
\* of a SmartWheel carry the sigma column its engine has read, at a spot of
\* 100 until the engine labels.  A row whose spot is 0 is read once the
\* underlying is held (buy_spot would divide by the spot).
SettleStep(rw) ==
    /\ pc = "settle"
    /\ rw.price <= 0 => btc > 0
    /\ kind = "SmartWheel" =>
           /\ rw.sigma = df_sigma[row_no]
           /\ row_no < smart_min_periods => rw.price = 100
    /\ cur_row' = rw
    /\ CASE kind \in AccountKinds ->
                SetAcct(SettleLoop(kind, Acct, Len(positions), rw.price))
         [] kind = "WheelDelta" -> SetBook(WheelRunExpiry(Book, rw, row_no))
         [] kind = "CspDelta" -> SetBook(CspRunExpiry(Book, rw, row_no))
         [] kind = "SmartWheel" -> SetBook(WheelRunExpiry(Book, rw, row_no))
    /\ IF kind = "SmartWheel"
       THEN \* the label the private engine gives the row
            /\ signals' = signals \o RunLoop(df_sigma, window, min_periods,
                                              row_no, row_no, current_state, <<>>)
            /\ current_state' = signals'[row_no]
            /\ UNCHANGED <<df_sigma, window, min_periods, q_he, q_hx, q_le,
                           q_lx, rpc>>
       ELSE UNCHANGED regimeVars
    /\ pc' = "decide"
    /\ UNCHANGED <<kind, tenor, df_len, row_no, history, portfolio_value>>
    /\ UNCHANGED <<pricingVars, batchVars>>

\* The decision of the row: BaseStrategy.run line 23, strategy_wheel.py
\* lines 97-143, strategy_csp.py lines 68-97, strategy_chamelon.py lines
\* 109-158.
DecideStep ==
    /\ pc = "decide"
    /\ CASE kind \in AccountKinds ->
                SetAcct(NextSignal(kind, Acct, cur_row, tenor))
         [] kind = "WheelDelta" ->
                SetBook(WheelRunOpen(Book, cur_row, row_no, tenor, df_len))
         [] kind = "CspDelta" ->
                SetBook(CspRunOpen(Book, cur_row, row_no, tenor, df_len))
         [] kind = "SmartWheel" ->
                LET regime == SmartRegime(cur_row, signals, row_no)
                IN  SetBook(SmartOpen(SmartLowSwitch(Book, cur_row, regime),
                                      cur_row, regime, row_no, tenor, df_len))
    /\ pc' = "record"
    /\ UNCHANGED <<kind, tenor, df_len, row_no, cur_row, history, portfolio_value>>
    /\ UNCHANGED <<regimeVars, pricingVars, batchVars>>

\* The record of the row, and the step of the loop to the next row:
\* BaseStrategy.run line 25, strategy_wheel.py lines 148-168,
\* strategy_csp.py lines 100-120, strategy_chamelon.py lines 160-181.
RecordStep ==
    /\ pc = "record"
    /\ CASE kind \in AccountKinds ->
                /\ history' = Append(history, RecordOf(Acct, cur_row, row_no))
                /\ UNCHANGED portfolio_value
         [] kind \in {"WheelDelta", "SmartWheel"} ->
                /\ portfolio_value' =
                       Append(portfolio_value, WheelRunNav(Book, cur_row, row_no))
                /\ UNCHANGED history
         [] kind = "CspDelta" ->
                /\ portfolio_value' =
                       Append(portfolio_value, CspRunNav(Book, cur_row, row_no))
                /\ UNCHANGED history
    /\ IF row_no < df_len
       THEN row_no' = row_no + 1 /\ pc' = "settle"
       ELSE row_no' = row_no /\ pc' = "done"
    /\ UNCHANGED <<kind, tenor, df_len, cur_row>>
    /\ UNCHANGED <<cash, btc, positions, stage>>
    /\ UNCHANGED <<stock_holdings, wheel_state, current_option>>
    /\ UNCHANGED <<regimeVars, pricingVars, batchVars>>

Next ==
    \/ \E rw \in RowsFor(kind) : SettleStep(rw)
    \/ DecideStep
    \/ RecordStep

Spec == Init /\ [][Next]_vars

\* ------------------------------------------------------------------------
\* Properties of a strategy run
\* ------------------------------------------------------------------------
Last(seq) == seq[Len(seq)]
\* The equity records written so far, by either family.
Records == Len(history) + Len(portfolio_value)

\* The open positions with one day taken off, without those that reach zero.
DecrementedSurvivors ==
    SelectSeq([k \in DOMAIN positions |->
                   [positions[k] EXCEPT !.days_left = @ - 1]],
              LAMBDA pos : pos.days_left > 0)

\* The settlement step takes a day off every position, removes exactly those
\* that reached zero and leaves the account flat if one did; it writes no
\* record.
SettleFirst ==
    pc = "settle" =>
        /\ pc' = "decide"
        /\ positions' = DecrementedSurvivors
        /\ (\E k \in DOMAIN positions : positions[k].days_left <= 1)
               => positions' = <<>>
        /\ (current_option # <<>> /\ row_no >= current_option[1].expiry_idx)
               => current_option' = <<>>
        /\ Records' = Records

\* The decision step follows the settlement of the same row and writes no
\* record.
DecideSecond ==
    pc = "decide" =>
        /\ pc' = "record"
        /\ row_no' = row_no /\ cur_row' = cur_row
        /\ \A k \in DOMAIN positions : positions[k].days_left > 0
        /\ current_option # <<>> => current_option[1].expiry_idx > row_no
        /\ Records' = Records

\* The record step comes last, appends exactly one record and changes
\* nothing of the account.
RecordLast ==
    pc = "record" =>
        /\ pc' \in {"settle", "done"}
        /\ Records' = Records + 1
        /\ UNCHANGED <<cash, btc, positions, stage, stock_holdings,
                       wheel_state, current_option>>

\* C1: on every row the steps run in the order decrement and settle, decide,
\* record: the settlement step removes every position that reached zero
\* before the decision step of the same row runs, the decision step finds no
\* expired position, and exactly one equity record is appended per row, after
\* the decision.
C1_StepOrder ==
    /\ [](pc \in {"settle", "decide", "record"} => Records = row_no - 1)
    /\ [](pc = "done" => Records = df_len)
    /\ [][SettleFirst /\ DecideSecond /\ RecordLast]_vars

\* A Wheel that holds a call sold on this very row while in stage CC: the
\* earlier option expired on this row and was settled before the decision
\* that sold the call.
C1_Witness ==
    /\ kind = "Wheel" /\ pc = "record" /\ row_no > 1
    /\ stage = "CC"
    /\ Len(positions) = 1
    /\ positions[1].type = "call" /\ positions[1].days_left = tenor
    /\ Len(history) = row_no - 1

\* The value of the open options at the row rw, short positions negative
\* and long positions positive.
SignedMark(rw) ==
    LET RECURSIVE Sum(_)
        Sum(k) == IF k = 0 THEN 0
                  ELSE LET pos == positions[k]
                           sign == IF pos.side = "long" THEN 1 ELSE 0 - 1
                       IN  Sum(k - 1)
                           + sign * MulQty(BsmPrice(rw.price, pos.strike, pos.days_left,
                                                    rw.r, rw.sigma, pos.type), pos.size)
    IN  Sum(Len(positions))

\* The same for the short option of a delta-targeted strategy.
SignedMarkDelta(rw, idx) ==
    IF current_option = <<>> THEN 0
    ELSE LET o == current_option[1]
         IN  0 - MulQty(GetPrice(idx, rw.price, o.strike, o.expiry_idx - idx,
                                 rw.r, rw.sigma, o.type), o.contracts)

\* C2: the equity recorded for a row equals cash + holdings x spot + the
\* signed mark-to-market value of the positions open when the record is
\* written (short negative, long positive).  Right after the record step the
\* account is still the one that was recorded.
C2_EquityIdentity ==
    (pc \in {"settle", "done"} /\ Records > 0) =>
        IF kind \in AccountKinds
        THEN Last(history).equity =
                 cash + SpotValue(btc, cur_row.price) + SignedMark(cur_row)
        ELSE Last(portfolio_value) =
                 cash + SpotValue(stock_holdings, cur_row.price)
                      + SignedMarkDelta(cur_row, Len(portfolio_value))

\* A collar just recorded: underlying held, a long put and a short call open.
C2_Witness ==
    /\ kind = "Collar" /\ pc = "settle" /\ Len(history) > 0
    /\ btc > 0
    /\ \E k \in DOMAIN positions : positions[k].side = "long"
    /\ \E k \in DOMAIN positions : positions[k].side = "short"
    /\ SignedMark(cur_row) # 0

\* The row being read settles the Wheel's short put below its strike:
\* strategy.py (stage CSP, days_left reaching zero) or strategy_wheel.py
\* (state CASH, expiry_idx reached).
PutAssignedAccount ==
    /\ kind = "Wheel" /\ pc = "settle" /\ stage = "CSP"
    /\ Len(positions) = 1
    /\ positions[1].type = "put" /\ positions[1].side = "short"
    /\ positions[1].days_left <= 1
    /\ cur_row'.price < positions[1].strike
PutAssignedDelta ==
    /\ kind = "WheelDelta" /\ pc = "settle" /\ wheel_state = "CASH"
    /\ current_option # <<>>
    /\ current_option[1].type = "put"
    /\ row_no >= current_option[1].expiry_idx
    /\ cur_row'.price < current_option[1].strike

\* C3: when the Wheel's short put of strike K and size n is settled on a row
\* whose spot is below K, holdings grow by exactly n, cash falls by K x n and
\* the stage becomes CC (STOCK in strategy_wheel.py).
C3_PutAssignment ==
    [][/\ PutAssignedAccount =>
              /\ btc' = btc + positions[1].size
              /\ cash' = cash - SpotValue(positions[1].size, positions[1].strike)
              /\ stage' = "CC"
       /\ PutAssignedDelta =>
              /\ stock_holdings' = stock_holdings + current_option[1].contracts
              /\ cash' = cash - SpotValue(current_option[1].contracts,
                                          current_option[1].strike)
              /\ wheel_state' = "STOCK"]_vars

\* The first put of a Wheel, sold on row 1, has just been assigned: the
\* decision step of row tenor + 1 finds stage CC and the delivered
\* underlying.
C3_Witness ==
    /\ kind = "Wheel" /\ pc = "decide" /\ row_no = tenor + 1
    /\ stage = "CC" /\ btc > 0 /\ positions = <<>>
    /\ cur_row.price < history[1].spot

\* The row being read settles the Wheel's short call above its strike.
CallAssignedAccount ==
    /\ kind = "Wheel" /\ pc = "settle" /\ stage = "CC"
    /\ Len(positions) = 1
    /\ positions[1].type = "call" /\ positions[1].side = "short"
    /\ positions[1].days_left <= 1
    /\ cur_row'.price > positions[1].strike
CallAssignedDelta ==
    /\ kind = "WheelDelta" /\ pc = "settle" /\ wheel_state = "STOCK"
    /\ current_option # <<>>
    /\ current_option[1].type = "call"
    /\ row_no >= current_option[1].expiry_idx
    /\ cur_row'.price > current_option[1].strike

\* C4: when the Wheel's short call of strike K and size n is settled on a row
\* whose spot is above K, exactly n units leave the holdings, cash is
\* credited K x n and the stage returns to CSP (CASH in strategy_wheel.py).
C4_CallAssignment ==
    [][/\ CallAssignedAccount =>
              /\ btc' = btc - positions[1].size
              /\ cash' = cash + SpotValue(positions[1].size, positions[1].strike)
              /\ stage' = "CSP"
       /\ CallAssignedDelta =>
              /\ stock_holdings' = stock_holdings - current_option[1].contracts
              /\ cash' = cash + SpotValue(current_option[1].contracts,
                                          current_option[1].strike)
              /\ wheel_state' = "CASH"]_vars

\* A delta-targeted Wheel whose put was assigned on row tenor + 1 and whose
\* call, sold on that row, has just been called away on row 2 * tenor + 1.
C4_Witness ==
    /\ kind = "WheelDelta" /\ pc = "decide" /\ row_no = 2 * tenor + 1
    /\ wheel_state = "CASH" /\ stock_holdings = 0 /\ current_option = <<>>
    /\ portfolio_value[tenor + 1] < portfolio_value[1]
    /\ cash > 0

\* C10: a decision step that starts with at least one open position leaves
\* the open positions as they are; no strategy opens an option while one is
\* open.
C10_SinglePosition ==
    [][(pc = "decide" /\ (positions # <<>> \/ current_option # <<>>)) =>
           (positions' = positions /\ current_option' = current_option)]_vars

\* A record step after a decision that found a position opened on an
\* earlier row still open.
C10_Witness ==
    /\ pc = "record"
    /\ \/ positions # <<>> /\ positions[1].days_left < tenor
       \/ current_option # <<>> /\ current_option[1].expiry_idx < row_no + tenor

\* ------------------------------------------------------------------------
\* The life of a position
\* ------------------------------------------------------------------------
\* The row on which an open position was opened: days_left started at the
\* tenor and lost one on every later row whose settlement has run.
SettledRows == IF pc = "settle" THEN row_no - 1 ELSE row_no
OpenRow(pos) == SettledRows - (tenor - pos.days_left)

\* The cash the settlement of a row moves for the positions that reach zero
\* on it, at the spot given (BaseStrategy._settle).
RECURSIVE ExpiryCashFlow(_, _)
ExpiryCashFlow(k, spot) ==
    IF k = 0 THEN 0
    ELSE LET pos == positions[k]
             payoff == IF pos.type = "call" THEN Max(0, spot - pos.strike)
                       ELSE Max(0, pos.strike - spot)
             flow == IF pos.days_left > 1 THEN 0
                     ELSE IF pos.side = "short" THEN 0 - SpotValue(pos.size, payoff)
                     ELSE SpotValue(pos.size, payoff)
         IN  flow + ExpiryCashFlow(k - 1, spot)

\* Every open position is between its opening row and its expiry row.
OpenBeforeExpiry ==
    /\ \A k \in DOMAIN positions :
           /\ positions[k].days_left \in 1..tenor
           /\ OpenRow(positions[k]) \in 1..SettledRows
    /\ current_option # <<>> =>
           /\ current_option[1].expiry_idx - tenor \in 1..SettledRows
           /\ current_option[1].expiry_idx > SettledRows

\* A decision that opens a position gives it the tenor of the strategy.
OpenedWithTenor ==
    pc = "decide" =>
        /\ \A k \in DOMAIN positions' :
               k > Len(positions) => positions'[k].days_left = tenor
        /\ (current_option = <<>> /\ current_option' # <<>>)
               => current_option'[1].expiry_idx = row_no + tenor

\* The settlement of a row removes exactly the positions whose expiry row it
\* is, settles them at the spot of that row and leaves the others alone.
SettledOnExpiryRow ==
    pc = "settle" =>
        /\ positions' = DecrementedSurvivors
        /\ (kind \in AccountKinds /\ kind # "Wheel") =>
               /\ cash' = cash + ExpiryCashFlow(Len(positions), cur_row'.price)
               /\ btc' = btc
        /\ (kind = "Wheel" /\ positions' # <<>>) => (cash' = cash /\ btc' = btc)
        /\ (kind = "Wheel" /\ positions # <<>> /\ positions' = <<>>) =>
               LET pos == positions[1]
                   itm == IF pos.type = "put" THEN cur_row'.price < pos.strike
                          ELSE cur_row'.price > pos.strike
               IN  itm <=> cash' # cash
        /\ current_option # <<>> =>
               LET o == current_option[1]
                   itm == IF o.type = "put" THEN cur_row'.price < o.strike
                          ELSE cur_row'.price > o.strike
               IN  IF row_no = o.expiry_idx
                   THEN /\ current_option' = <<>>
                        /\ o.contracts > 0 => (itm <=> cash' # cash)
                   ELSE /\ current_option' = current_option
                        /\ cash' = cash /\ stock_holdings' = stock_holdings

\* C11: a position opened with tenor d on row i stays open on the rows
\* before i + d, is settled on row i + d at the spot of that row, and is
\* gone from the open positions from then on; no earlier row settles or
\* removes it.
C11_PositionLifecycle ==
    /\ []OpenBeforeExpiry
    /\ [][OpenedWithTenor /\ SettledOnExpiryRow]_vars

\* A put sold on row 1 with a tenor of two rows was still open on row 2,
\* where it kept the strategy from selling, and row 3 has settled it below
\* its strike.
C11_Witness ==
    /\ kind = "CashSecuredPut" /\ tenor = 2
    /\ pc = "decide" /\ row_no = 3
    /\ positions = <<>>
    /\ cur_row.price < OtmStrike(history[1].spot, put_otm)

\* ------------------------------------------------------------------------
\* Sizing of the puts sold against cash
\* ------------------------------------------------------------------------
\* The cash a put-selling decision holds when it sizes the put: the Wheel of
\* strategy.py first sells any underlying it still holds.
CashAtOpening ==
    IF kind = "Wheel" /\ btc > DustSize
    THEN cash + SpotValue(btc, cur_row.price)
    ELSE cash

\* The decision step of a put-selling strategy opens a put.
OpensPut ==
    /\ pc = "decide"
    /\ \/ /\ kind \in {"CashSecuredPut", "Wheel"}
          /\ positions = <<>> /\ Len(positions') = 1
          /\ positions'[1].type = "put" /\ positions'[1].side = "short"
       \/ /\ kind \in DeltaKinds
          /\ current_option = <<>> /\ current_option' # <<>>
          /\ current_option'[1].type = "put"
\* Its strike and its size.
OpenedStrike ==
    IF kind \in DeltaKinds THEN current_option'[1].strike ELSE positions'[1].strike
OpenedSize ==
    IF kind \in DeltaKinds THEN current_option'[1].contracts ELSE positions'[1].size

\* C14: a put opened by Cash-Secured Put, or by the Wheel while it sells
\* puts, has size cash / strike (to the thousandth of a unit), so strike x
\* size does not exceed the cash held when the put is opened.
C14_CashSecuredSizing ==
    [][OpensPut =>
           /\ OpenedSize = QtyFor(CashAtOpening, OpenedStrike)
           /\ SpotValue(OpenedSize, OpenedStrike) <= CashAtOpening
           /\ CashAtOpening - SpotValue(OpenedSize, OpenedStrike)
                  < SpotValue(1, OpenedStrike)]_vars

\* A Wheel of strategy.py sells a put again on a later row, sized on the
\* cash that row finds, premiums and settlements of the earlier rows
\* included.
C14_Witness ==
    /\ kind = "Wheel" /\ pc = "record" /\ stage = "CSP" /\ row_no > 2
    /\ Len(positions) = 1 /\ positions[1].type = "put"
    /\ positions[1].days_left = tenor
    /\ SpotValue(positions[1].size, positions[1].strike) <= cash
    /\ cash # 200 * MoneyScale

\* ------------------------------------------------------------------------
\* The two legs of a collar
\* ------------------------------------------------------------------------
\* The protective put and the capped call of a collar.
IsPutLeg(pos) == pos.type = "put" /\ pos.side = "long"
IsCallLeg(pos) == pos.type = "call" /\ pos.side = "short"
\* The open positions are the two legs of one collar.
BothLegs(ps) ==
    /\ Len(ps) = 2
    /\ IsPutLeg(ps[1]) /\ IsCallLeg(ps[2])
    /\ ps[1].size = ps[2].size
    /\ ps[1].days_left = ps[2].days_left
\* A collar leg is open without the other.
LoneLeg(ps) ==
    /\ \E k \in DOMAIN ps : IsPutLeg(ps[k]) \/ IsCallLeg(ps[k])
    /\ ~BothLegs(ps)

\* The strikes of the collar of the running strategy, in percent of spot.
CollarProtect == IF kind = "Chameleon" THEN 95 ELSE protect
CollarCap == IF kind = "Chameleon" THEN 110 ELSE cap
\* The premiums the row quotes for the two legs, per unit.
QuotedPut ==
    BsmPrice(cur_row.price, OtmStrike(cur_row.price, CollarProtect), tenor,
             cur_row.r, cur_row.sigma + GetDynamicSkew(cur_row.sigma), "put")
QuotedCall ==
    BsmPrice(cur_row.price, OtmStrike(cur_row.price, CollarCap), tenor,
             cur_row.r, cur_row.sigma, "call")
\* The net premium cost of a collar of the size given: the put at 102%, the
\* call at 98%.
NetCost(size) ==
    MulQty(Pct(QuotedPut, BuyGross), size) - MulQty(Pct(QuotedCall, SellNet), size)
\* What opening both legs takes out of cash.
LegsPaid(size) ==
    Pct(MulQty(QuotedPut, size), BuyGross) - Pct(MulQty(QuotedCall, size), SellNet)

\* A decision step of a collar: the Collar on every row, the Chameleon on
\* the rows whose vol_gap is negative; the step starts without open options
\* and holds the underlying once it has bought it.
CollarDecision ==
    /\ pc = "decide" /\ positions = <<>>
    /\ \/ kind = "Collar"
       \/ kind = "Chameleon" /\ cur_row.vol_gap < 0
    /\ btc' > 0

\* The step opens both legs, of the size of the holdings and of the tenor
\* of the strategy, and could afford them; or it opens none and could not.
BothOrNeither ==
    \/ /\ BothLegs(positions')
       /\ positions'[1].size = btc' /\ positions'[1].days_left = tenor
       /\ cash' + LegsPaid(btc') > NetCost(btc')
    \/ /\ positions' = <<>>
       /\ cash' <= NetCost(btc')

\* C15: a collar decision opens the long put and the short call together,
\* with one size and one tenor, or opens neither; it opens neither exactly
\* when the cash does not exceed the net premium cost, and then cash is what
\* rebalancing and the purchase of the underlying left.  No account of a
\* Collar or a Chameleon ever holds one collar leg alone.
C15_AllOrNothingCollar ==
    /\ [](kind \in {"Collar", "Chameleon"} => ~LoneLeg(positions))
    /\ [][CollarDecision => BothOrNeither]_vars

\* A Chameleon holds the underlying and no option after a collar decision,
\* on a later row of its run, whose net premium its cash could not pay.
C15_Witness ==
    /\ kind = "Chameleon" /\ pc = "record" /\ cur_row.vol_gap < 0
    /\ btc > 0 /\ positions = <<>>
    /\ cash <= NetCost(btc)
    /\ row_no > 1

\* ------------------------------------------------------------------------
\* Dust
\* ------------------------------------------------------------------------
\* C16, as the specification states it: every open option position has a
\* size strictly greater than 0.001.
C16_NoDustPositions ==
    /\ \A k \in DOMAIN positions : positions[k].size > DustSize
    /\ current_option # <<>> => current_option[1].contracts > DustSize

\* ------------------------------------------------------------------------
\* The empirical lookups of the pricing engine
\* ------------------------------------------------------------------------
\* The rows of the loaded chain that carry the date and the option type of
\* the call in progress; none if no chain is loaded or the date is absent.
ReqChain ==
    IF is_setup /\ market_cache # <<>> /\ req[1].date \in DOMAIN market_cache[1]
    THEN RowsOfType(market_cache[1][req[1].date], req[1].option_type)
    ELSE <<>>

\* Row j of those rows has a strike nearest to the strike asked for, and a
\* strike within 5% of it.
NearestStrike(j) ==
    \A i \in DOMAIN ReqChain :
        Abs(ReqChain[j].Strike - req[1].K) <= Abs(ReqChain[i].Strike - req[1].K)
WithinTolerance(j) ==
    Abs(ReqChain[j].Strike - req[1].K) * 100 <= 5 * req[1].K

\* C17: the empirical price lookup returns the price of a row of the same
\* date and option type whose strike is nearest to the target strike, if
\* that strike is within 5% of the target; otherwise it finds nothing and
\* get_price returns the theoretical price.
C17_StrikeTolerance ==
    IsPriceReq =>
        IF \E j \in DOMAIN ReqChain : NearestStrike(j) /\ WithinTolerance(j)
        THEN \E j \in DOMAIN ReqChain :
                 /\ NearestStrike(j) /\ WithinTolerance(j)
                 /\ ReqMarket = <<ReqChain[j].Price>>
        ELSE ReqMarket = <<>> /\ ret = ReqTheo

\* A chain is loaded and holds calls for the date asked, but none within 5%
\* of the strike 121: get_price has returned the theoretical price, which
\* no row of the chain quotes.
C17_Witness ==
    /\ is_setup /\ IsPriceReq
    /\ req[1].option_type = "call" /\ req[1].K = 121 /\ req[1].T = 1
    /\ ReqChain # <<>>
    /\ ret = ReqTheo
    /\ \A j \in DOMAIN ReqChain : ReqChain[j].Price # ret

\* The analytic strike of the call in progress.
ReqAnalyticStrike ==
    BsmFindStrike(req[1].S, req[1].T, req[1].r, req[1].sigma,
                  req[1].target_delta, req[1].option_type)

\* No chain is loaded: setup_market_data was never called, did not find the
\* file, or failed to load it.
NoChainLoaded ==
    /\ ~is_setup
    /\ setup_msg \in {"", "not_found", "failed"}

\* C18: while no option chain is loaded, get_price returns the theoretical
\* price and get_strike_by_delta returns the analytic strike, whatever is
\* asked.
C18_GracefulDegradation ==
    /\ ~is_setup => NoChainLoaded
    /\ NoChainLoaded =>
           /\ IsPriceReq => ret = ReqTheo
           /\ IsStrikeReq => ret = ReqAnalyticStrike

\* After a load that failed, get_strike_by_delta has answered with the
\* analytic strike.
C18_Witness ==
    /\ setup_msg = "failed" /\ ~is_setup
    /\ IsStrikeReq
    /\ ret = ReqAnalyticStrike /\ ret > 0

\* The rows of ReqChain carry a delta, and none of them a negative one.
HasDeltas == ReqChain # <<>> /\ "Delta" \in DOMAIN ReqChain[1]
NoNegativeDelta == \A j \in DOMAIN ReqChain : ReqChain[j].Delta >= 0

\* The delta the rows are compared with, as the specification states it:
\* the magnitude of a negative target when the chain holds no negative
\* delta, the signed target in every other case.
ComparedTarget ==
    IF req[1].target_delta < 0 /\ NoNegativeDelta
    THEN Abs(req[1].target_delta) ELSE req[1].target_delta

\* C19, as the specification states it: the delta lookup answers with the
\* strike of a row whose delta is nearest to |target| when the target is
\* negative and the chain of that date and type holds no negative delta,
\* and nearest to the signed target in every other case.
C19_MagnitudeOnlyDeltas ==
    (IsStrikeReq /\ HasDeltas) =>
        \E j \in DOMAIN ReqChain :
            /\ \A i \in DOMAIN ReqChain :
                   Abs(ReqChain[j].Delta - ComparedTarget)
                       <= Abs(ReqChain[i].Delta - ComparedTarget)
            /\ ret = ReqChain[j].Strike

\* The intrinsic value of the option of the call in progress.
ReqIntrinsic == Intrinsic(req[1].S, req[1].K, req[1].option_type)

\* C20, as the specification states it: the theoretical price at T = 0 is
\* max(0, S-K) for a call and max(0, K-S) for a put, and so is the
\* theoretical price at any T when sigma <= 0.
C20_PricingEdgeCase ==
    (IsPriceReq /\ (req[1].T = 0 \/ req[1].sigma <= 0)) => ReqTheo = ReqIntrinsic

\* ------------------------------------------------------------------------
\* A batch of strategies over one shared table: the loop of src/main.py
\* over BaseStrategy objects, and BacktestEngine.run_strategies of
\* src/src/backtest_engine.py over the classes that carry a name and whose
\* run returns a table (strategy_wheel.py, strategy_csp.py,
\* strategy_buy_and_hold.py, strategy_chamelon.py).
\* ------------------------------------------------------------------------
MaxStrats == 2      \* strategies in a batch
MaxTable == 3       \* rows of the shared table

\* initial_capital of every strategy of a batch, in money.
BatchCapital == 200 * MoneyScale

\* The classes main.py builds, and the classes run_strategies can drive.
MainClasses == {"BuyHold", "CashSecuredPut", "Wheel", "Chameleon"}
EngineClasses == {"WheelDelta", "CspDelta", "BuyAndHold", "SmartWheel"}

\* self.name.
Name(st) ==
    CASE st.cls = "WheelDelta" -> "Wheel (Delta 0.2)"
      [] st.cls = "CspDelta" -> "CSP (Delta -0.3)"
      [] st.cls = "BuyAndHold" -> "Buy & Hold"
      [] st.cls = "SmartWheel" -> "SmartWheel(W365)"

\* The columns a market-data table may carry (data_loader.py, and vol_gap
\* of run_backtest.py), and the columns the first statement of run selects
\* from the table it is given.
AllColumns == {"date", "price", "sigma", "r", "vol_gap", "regime_signal"}
ColumnsRead(cls) ==
    CASE cls \in {"WheelDelta", "CspDelta"} ->
             {"date", "price", "sigma", "r", "regime_signal"}
      [] cls = "BuyAndHold" -> {"date", "price", "regime_signal"}
      [] cls = "SmartWheel" -> {"date", "price", "sigma", "r"}

\* Whether run raises: df[[...]] raises KeyError on a missing column.
Raises(st, d) == ~(ColumnsRead(st.cls) \subseteq d.columns)

\* A faulty variant: the private signal written into the table it was given.
TableWrittenInPlace(st, d) ==
    IF st.cls = "SmartWheel"
    THEN [d EXCEPT !.columns = @ \cup {"regime_signal"}]
    ELSE d

\* The table the caller holds after run: run reads df row by row and works
\* on copies (df[[...]].copy(), data = df.copy()).
TableAfterRun(st, d) == d

\* BaseStrategy.__init__ (WheelStrategy adds stage).
NewAccount ==
    [cash |-> BatchCapital, btc |-> 0, positions |-> <<>>, stage |-> "CSP",
     history |-> <<>>]

\* BaseStrategy.run over the rows from idx on: settle, decide, record.
RECURSIVE RunAccount(_, _, _, _, _)
RunAccount(knd, days, a, rows, idx) ==
    IF idx > Len(rows) THEN a
    ELSE LET rw == rows[idx]
             settled == SettleLoop(knd, a, Len(a.positions), rw.price)
             decided == NextSignal(knd, settled, rw, days)
         IN  RunAccount(knd, days,
                        [decided EXCEPT
                            !.history = Append(@, RecordOf(decided, rw, idx))],
                        rows, idx + 1)

\* The locals of run before its loop.
NewBook ==
    [cash |-> BatchCapital, stock_holdings |-> 0, state |-> "CASH",
     current_option |-> <<>>]

\* SmartWheelStrategy._calculate_local_regime: the labels of the rows.
LocalRegime(rows) ==
    AddSignalsLabels([i \in 1..Len(rows) |-> rows[i].sigma],
                     smart_regime_window, smart_min_periods, Len(rows))

\* The loop of run of the classes that keep their book in locals, over the
\* rows from idx on: the list portfolio_value.
RECURSIVE RunBook(_, _, _, _, _, _)
RunBook(cls, target_dte, b, pv, rows, idx) ==
    IF idx > Len(rows) THEN pv
    ELSE LET rw == rows[idx]
             len == Len(rows)
         IN  CASE cls = "WheelDelta" ->
                      LET o == WheelRunOpen(WheelRunExpiry(b, rw, idx), rw, idx,
                                            target_dte, len)
                      IN  RunBook(cls, target_dte, o,
                                  Append(pv, WheelRunNav(o, rw, idx)), rows, idx + 1)
               [] cls = "CspDelta" ->
                      LET o == CspRunOpen(CspRunExpiry(b, rw, idx), rw, idx,
                                          target_dte, len)
                      IN  RunBook(cls, target_dte, o,
                                  Append(pv, CspRunNav(o, rw, idx)), rows, idx + 1)
               [] OTHER ->
                      LET regime == SmartRegime(rw, LocalRegime(rows), idx)
                          e == WheelRunExpiry(b, rw, idx)
                          o == SmartOpen(SmartLowSwitch(e, rw, regime), rw, regime,
                                         idx, target_dte, len)
                      IN  RunBook(cls, target_dte, o,
                                  Append(pv, WheelRunNav(o, rw, idx)), rows, idx + 1)

\* BuyAndHoldStrategy.run: all the capital buys the underlying on the first
\* row; the value of the holding on each row.
BuyAndHoldRun(rows) ==
    LET shares == QtyFor(BatchCapital, rows[1].price)
    IN  [i \in 1..Len(rows) |-> SpotValue(shares, rows[i].price)]

\* res_df['portfolio_value'] of strat.run(d), for a run that does not raise.
PortfolioValue(st, d) ==
    IF st.cls = "BuyAndHold" THEN BuyAndHoldRun(d.rows)
    ELSE RunBook(st.cls, st.days, NewBook, <<>>, d.rows, 1)

\* The shared tables: MaxTable rows one day apart, the first at 100, in a
\* calm market (vol_gap negative) or a stressed one (vol_gap positive).
TableRows ==
    UNION {{t \in [1..MaxTable ->
                      {rw \in Rows : /\ rw.sigma = sig
                                     /\ rw.vol_gap = (IF sig = 40 THEN -5 ELSE 5)
                                     /\ rw.regime_signal = NORMAL
                                     /\ rw.price > 0}] :
               t[1].price = 100} : sig \in CalmSigmas}
\* The table of main.py carries every column; the table handed to the
\* engine may lack the column regime_signal.
Tables(drv) ==
    {[rows |-> t, columns |-> c] :
        t \in TableRows,
        c \in IF drv = "main" THEN {AllColumns}
              ELSE {AllColumns, AllColumns \ {"regime_signal"}}}

\* The batches: MaxStrats strategies of one tenor.
Batches(drv) ==
    LET classes == IF drv = "main" THEN MainClasses ELSE EngineClasses
    IN  UNION {{[k \in 1..MaxStrats |-> [cls |-> cs[k], days |-> dd]] :
                   cs \in [1..MaxStrats -> classes]} : dd \in 1..MaxDays}

\* The return value None of run_strategies.
None == [made |-> FALSE, columns |-> <<>>]

\* A faulty variant of the loop: no try around the run, the first error ends
\* the loop.
AbortOnError(i, n) == n + 1

\* The strategy the loop turns to after the except clause of run_strategies.
ContinueAfterError(i, n) == i + 1

InitBatch ==
    /\ RegimeIdle
    /\ PricingIdle
    /\ StrategyIdle
    /\ driver \in {"main", "engine"}
    /\ data \in Tables(driver)
    /\ strategies \in Batches(driver)
    /\ accounts = IF driver = "main"
                  THEN [k \in 1..MaxStrats |-> NewAccount]
                  ELSE <<>>
    /\ strat_no = 1
    /\ all_equity_curves = <<>> /\ batch_log = <<>> /\ master_df = <<>>
    /\ bpc = "loop"

\* main.py, lines 76-78: one pass of the loop, strat.run(df).
MainRunOne ==
    /\ driver = "main" /\ bpc = "loop"
    /\ strat_no <= Len(strategies)
    /\ LET st == strategies[strat_no]
       IN  /\ accounts' = [accounts EXCEPT ![strat_no] =
                              RunAccount(st.cls, st.days, accounts[strat_no],
                                         data.rows, 1)]
           /\ data' = TableAfterRun(st, data)
    /\ strat_no' = strat_no + 1
    /\ bpc' = IF strat_no = Len(strategies) THEN "done" ELSE "loop"
    /\ UNCHANGED <<driver, strategies, all_equity_curves, batch_log, master_df>>
    /\ UNCHANGED <<regimeVars, pricingVars, strategyVars>>

\* run_strategies, lines 24-47: one pass of the loop.
EngineRunOne ==
    /\ driver = "engine" /\ bpc = "loop"
    /\ strat_no <= Len(strategies)
    /\ LET st == strategies[strat_no]
       IN  /\ IF Raises(st, data)
              THEN /\ batch_log' = Append(batch_log,
                                          [name |-> Name(st), ok |-> FALSE,
                                           final_val |-> 0])
                   /\ strat_no' = ContinueAfterError(strat_no, Len(strategies))
                   /\ UNCHANGED all_equity_curves
              ELSE LET res == PortfolioValue(st, data)
                   IN  /\ all_equity_curves' =
                              Append(all_equity_curves,
                                     [name |-> Name(st), values |-> res])
                       /\ batch_log' = Append(batch_log,
                                              [name |-> Name(st), ok |-> TRUE,
                                               final_val |-> res[Len(res)]])
                       /\ strat_no' = strat_no + 1
           /\ data' = TableAfterRun(st, data)
    /\ UNCHANGED <<driver, strategies, accounts, master_df, bpc>>
    /\ UNCHANGED <<regimeVars, pricingVars, strategyVars>>

\* run_strategies, lines 50-59: the consolidated table, or None.
Consolidate ==
    /\ driver = "engine" /\ bpc = "loop"
    /\ strat_no > Len(strategies)
    /\ master_df' = IF all_equity_curves # <<>>
                    THEN <<[made |-> TRUE, columns |-> all_equity_curves]>>
                    ELSE <<None>>
    /\ bpc' = "done"
    /\ UNCHANGED <<driver, data, strategies, accounts, strat_no,
                   all_equity_curves, batch_log>>
    /\ UNCHANGED <<regimeVars, pricingVars, strategyVars>>

NextBatch ==
    \/ MainRunOne
    \/ EngineRunOne
    \/ Consolidate

SpecBatch == InitBatch /\ [][NextBatch]_vars

\* ------------------------------------------------------------------------
\* Properties of a batch
\* ------------------------------------------------------------------------
\* The strategies among the first k of the batch whose run does not raise,
\* in the order of the batch.
RECURSIVE Succeeded(_)
Succeeded(k) ==
    IF k = 0 THEN <<>>
    ELSE IF Raises(strategies[k], data) THEN Succeeded(k - 1)
    ELSE Append(Succeeded(k - 1), k)

\* The column strategy k contributes: its name over its portfolio values.
ColumnOf(k) ==
    [name |-> Name(strategies[k]), values |-> PortfolioValue(strategies[k], data)]

EngineDone == driver = "engine" /\ bpc = "done"

\* Every strategy of the list was run, and reported under its own outcome.
EveryStrategyRun ==
    EngineDone =>
        /\ Len(batch_log) = Len(strategies)
        /\ \A k \in DOMAIN strategies :
               /\ batch_log[k].name = Name(strategies[k])
               /\ batch_log[k].ok = ~Raises(strategies[k], data)

\* The consolidated table holds one column per strategy that succeeded, and
\* no other; with no success there is no table.
ColumnsOfSucceeded ==
    EngineDone =>
        LET ok == Succeeded(Len(strategies))
        IN  master_df = IF ok = <<>> THEN <<None>>
                        ELSE <<[made |-> TRUE,
                                columns |-> [j \in DOMAIN ok |-> ColumnOf(ok[j])]]>>

\* A failing run costs the batch that one strategy only: the loop goes on
\* with the next and the curves collected so far are kept.
FailureSkipsOne ==
    (/\ driver = "engine" /\ bpc = "loop"
     /\ strat_no <= Len(strategies)
     /\ Raises(strategies[strat_no], data))
    => /\ strat_no' = strat_no + 1
       /\ bpc' = "loop"
       /\ all_equity_curves' = all_equity_curves

\* C12: when the run of one strategy of the list given to run_strategies
\* fails, every other strategy of the list is still run, the batch goes on
\* to its consolidation, and the consolidated table has a column for
\* exactly the strategies whose run succeeded.
C12_BatchFaultIsolation ==
    /\ []EveryStrategyRun
    /\ []ColumnsOfSucceeded
    /\ [][FailureSkipsOne]_vars

\* A batch whose first strategy failed and whose second one succeeded.
C12_Witness ==
    /\ EngineDone
    /\ Raises(strategies[1], data)
    /\ ~Raises(strategies[2], data)
    /\ master_df = <<[made |-> TRUE, columns |-> <<ColumnOf(2)>>]>>

\* A step of the batch leaves the shared table and the list as they were.
TableUntouched == data' = data /\ strategies' = strategies

\* A step of the batch leaves the account of every strategy but the one
\* being run as it was.
OthersUntouched ==
    \A k \in DOMAIN accounts : k # strat_no => accounts'[k] = accounts[k]

\* The account a strategy ends with when it alone is run over the table.
AloneAccount(st) == RunAccount(st.cls, st.days, NewAccount, data.rows, 1)

\* What each strategy has produced so far is what it produces run alone:
\* the account and history of an object of main.py, the curve of a
\* strategy run by the engine.
ResultsAsAlone ==
    /\ driver = "main" =>
           \A k \in DOMAIN accounts :
               accounts[k] = IF k < strat_no THEN AloneAccount(strategies[k])
                             ELSE NewAccount
    /\ driver = "engine" =>
           LET ok == Succeeded(strat_no - 1)
           IN  all_equity_curves = [j \in DOMAIN ok |-> ColumnOf(ok[j])]

\* C13: running a strategy changes only that strategy's own account; the
\* shared market-data table and every other strategy's account stay as they
\* were, so what a strategy produces is what it produces when run alone,
\* whichever other strategies were run and in whatever order.
C13_StateIsolation ==
    /\ [][TableUntouched /\ OthersUntouched]_vars
    /\ []ResultsAsAlone

\* Two strategies of different classes were run by main.py, and each has
\* traded on its own account.
C13_Witness ==
    /\ driver = "main" /\ bpc = "done"
    /\ strategies[1].cls # strategies[2].cls
    /\ accounts[1].cash # BatchCapital /\ accounts[2].cash # BatchCapital
    /\ accounts[1].history # accounts[2].history
    /\ Len(accounts[1].history) = MaxTable

\* ------------------------------------------------------------------------
\* Properties of the analytic inversion
\* ------------------------------------------------------------------------
IsInversionReq == req # <<>> /\ "fn" \in DOMAIN req[1]

\* The delta of the closed form at the strike returned, in 1e-7.
RecomputedDelta ==
    LET q == req[1].args
    IN  BsmDelta(q.S, ret, q.T, q.r, q.sigma, q.option_type)

\* C21: for a target delta in (-0.95, -0.05) for puts or (0.05, 0.95) for
\* calls, the delta of the closed form at the strike _bsm_find_strike
\* returns is the target delta, within 1e-6.
C21_DeltaRoundTrip ==
    IsInversionReq =>
        Abs(RecomputedDelta - req[1].args.target_delta * 100000) <= 10

\* The inversion was asked for a put of delta -0.94 in a stressed market:
\* the strike returned lies above the spot.
C21_Witness ==
    /\ IsInversionReq
    /\ req[1].args.target_delta = -94
    /\ req[1].args.sigma = 160
    /\ ret > req[1].args.S * 1000000

\* ------------------------------------------------------------------------
\* Properties of the execution price
\* ------------------------------------------------------------------------
\* The decision of the row has just opened a position.
JustOpened ==
    /\ pc = "record" /\ kind \in AccountKinds
    /\ positions # <<>> /\ Last(positions).days_left = tenor

\* The mid premium of that option on the row, per unit, and for its size.
QuoteMid ==
    LET pos == Last(positions)
    IN  BsmPrice(cur_row.price, pos.strike, tenor, cur_row.r, cur_row.sigma, pos.type)
MidAmount == MulQty(QuoteMid, Last(positions).size)

\* What buy_option takes from the cash and what sell_option adds to it, for
\* that option, size and premium.
PaidBuying ==
    LET pos == Last(positions)
    IN  cash - BuyOption(Acct, pos.strike, tenor, pos.size, QuoteMid, pos.type).cash
ReceivedSelling ==
    LET pos == Last(positions)
    IN  SellOption(Acct, pos.strike, tenor, pos.size, QuoteMid, pos.type).cash - cash

\* Amounts the fixed point holds exactly or well above its resolution: an
\* intrinsic value (volatility 0), or a thousandth of a dollar and more.
ExactAmount == cur_row.sigma <= 0 \/ MidAmount >= 100

\* C22 as stated: buying pays at least the mid premium and selling receives
\* at most the mid premium, with equality only when the fee fraction is
\* zero.
C22_AsStated ==
    (JustOpened /\ ExactAmount) =>
        /\ PaidBuying >= MidAmount /\ MidAmount >= ReceivedSelling
        /\ (PaidBuying = MidAmount \/ MidAmount = ReceivedSelling)
               => (SellNet = 100 /\ BuyGross = 100)

\* C22: for the same option, size and premium, buying pays at least the mid
\* premium and selling receives at most the mid premium; both inequalities
\* are strict when the mid premium is positive, and all three amounts are
\* zero when the mid premium is zero.
C22_ExecutionPriceDirection ==
    JustOpened =>
        /\ PaidBuying >= MidAmount /\ MidAmount >= ReceivedSelling
        /\ MidAmount >= 100 => (PaidBuying > MidAmount /\ MidAmount > ReceivedSelling)
        /\ MidAmount = 0 => (PaidBuying = 0 /\ ReceivedSelling = 0)

\* A covered call sold on a row of volatility 0: its premium is the
\* intrinsic value of an out-of-the-money call, which is zero.
C22_Witness ==
    /\ JustOpened /\ kind = "CoveredCall"
    /\ cur_row.sigma = 0
    /\ QuoteMid = 0 /\ PaidBuying = 0 /\ ReceivedSelling = 0

\* ------------------------------------------------------------------------
\* Properties of Buy-and-Hold
\* ------------------------------------------------------------------------
\* The decision of a row of the Buy-and-Hold run.
BuyHoldDecides == kind = "BuyHold" /\ pc = "decide" /\ pc' = "record"

\* C23 as stated: once the first row is decided all the cash has become
\* underlying, and no option is ever opened.
C23_AsStated ==
    (kind = "BuyHold" /\ (pc \in {"record", "done"} \/ row_no > 1)) =>
        cash = 0 /\ positions = <<>>

\* With more than 10 dollars and no underlying, the decision turns all the
\* cash into underlying at the price of the row; any other decision changes
\* nothing.
BuyHoldInvestsOnce ==
    BuyHoldDecides =>
        IF btc = 0 /\ cash > MinCash * MoneyScale
        THEN cash' = 0 /\ btc' = QtyFor(cash, cur_row.price) /\ btc' > 0
        ELSE cash' = cash /\ btc' = btc

\* Outside its decisions nothing moves the account, and it holds no option.
BuyHoldFrame ==
    kind = "BuyHold" =>
        /\ positions' = <<>>
        /\ ~BuyHoldDecides => (cash' = cash /\ btc' = btc)

\* C23: Buy-and-Hold turns all of its cash into underlying on the first
\* step at which it holds none and has more than 10 dollars; afterwards
\* cash is 0 and the holdings stay constant; with 10 dollars or less it
\* stays in cash; it never opens an option position.
C23_BuyAndHold ==
    /\ [][BuyHoldInvestsOnce /\ BuyHoldFrame]_vars
    /\ [](kind = "BuyHold" => positions = <<>> /\ (btc > 0 => cash = 0))

\* A run that invested on its first row and held to the end over a moving
\* price.
C23_Witness ==
    /\ kind = "BuyHold" /\ pc = "done" /\ Len(history) >= 3
    /\ cash = 0 /\ btc = QtyFor(200 * MoneyScale, history[1].spot)
    /\ history[1].spot # history[3].spot
    /\ history[3].equity = SpotValue(btc, history[3].spot)

\* ------------------------------------------------------------------------
\* Properties of the Chameleon
\* ------------------------------------------------------------------------
\* The panic threshold of vol_gap (gap > 0.15, src/run_backtest.py), in
\* percent.
panic_gap == 15

\* A decision of the Chameleon taken with no position open.
ChameleonDecides ==
    /\ kind = "Chameleon" /\ pc = "decide" /\ pc' = "record"
    /\ positions = <<>>

\* Every position the decision opened is a short put / a short call.
OnlyShort(ps, type) ==
    \A k \in DOMAIN ps : ps[k].type = type /\ ps[k].side = "short"

\* C24: with no position open the Chameleon picks its mode from vol_gap
\* alone: above the panic threshold all the underlying becomes cash and a
\* cash-secured put is sold; below 0 a protective collar is put on the
\* underlying held; otherwise the underlying is held and only a covered
\* call is sold.
C24_ChameleonModes ==
    [][ChameleonDecides =>
          IF cur_row.vol_gap > panic_gap
          THEN btc' = 0 /\ OnlyShort(positions', "put")
          ELSE IF cur_row.vol_gap < 0
          THEN positions' = <<>> \/ BothLegs(positions')
          ELSE /\ OnlyShort(positions', "call")
               /\ btc > 0 => btc' > 0]_vars

\* ------------------------------------------------------------------------
\* The delta-targeted Wheel with a private regime, in a Low regime
\* ------------------------------------------------------------------------
\* The decision of a SmartWheel on a row its engine labels Low, once what
\* expires on the row is settled and no option is open.
SmartDecidesLow ==
    /\ kind = "SmartWheel" /\ pc = "decide" /\ pc' = "record"
    /\ signals[row_no] = LOW
    /\ current_option = <<>>

\* C25: on a row whose private regime label is Low and on which no option
\* is open, the delta-targeted Wheel sells no option; in the CASH state it
\* converts all its cash into underlying at the spot of the row and moves to
\* the STOCK state, in the STOCK state it changes nothing.
C25_LowRegime ==
    [][SmartDecidesLow =>
          /\ current_option' = <<>>
          /\ IF wheel_state = "CASH"
             THEN /\ cash' = 0
                  /\ stock_holdings' = QtyFor(cash, cur_row.price)
                  /\ wheel_state' = "STOCK"
             ELSE UNCHANGED <<cash, stock_holdings, wheel_state>>]_vars

\* The first row the engine labels is Low and the cash of the expired puts
\* has bought the underlying.
C25_Witness ==
    /\ kind = "SmartWheel" /\ pc = "record"
    /\ row_no = smart_min_periods /\ signals[row_no] = LOW
    /\ wheel_state = "STOCK" /\ current_option = <<>>
    /\ cash = 0 /\ stock_holdings > 2 * UnitScale

\* ------------------------------------------------------------------------
\* The private regime signal of the delta-targeted Wheel
\* ------------------------------------------------------------------------
\* A step of the run of a SmartWheel.
SmartSteps == kind = "SmartWheel" /\ pc # pc'

\* The row rw of a table that differs from the caller's only in the column
\* regime_signal, where it carries g.
WithLabel(rw, g) == [rw EXCEPT !.regime_signal = g]

\* The book and the list portfolio_value the step leaves when the caller's
\* table carries g on the row.
SmartAfter(g) ==
    CASE pc = "settle" ->
             [book |-> WheelRunExpiry(Book, WithLabel(cur_row', g), row_no),
              pv |-> portfolio_value]
      [] pc = "decide" ->
             LET rw == WithLabel(cur_row, g)
                 regime == SmartRegime(rw, signals, row_no)
             IN  [book |-> SmartOpen(SmartLowSwitch(Book, rw, regime), rw, regime,
                                     row_no, tenor, df_len),
                  pv |-> portfolio_value]
      [] pc = "record" ->
             [book |-> Book,
              pv |-> Append(portfolio_value,
                            WheelRunNav(Book, WithLabel(cur_row, g), row_no))]

\* C26: the result of the delta-targeted Wheel does not depend on the column
\* regime_signal of the table it is given: every step of the run leaves the
\* book and the portfolio-value series it would leave under any other label
\* of the caller on the row, and the row keeps the caller's label.
C26_PrivateRegime ==
    [][SmartSteps =>
          /\ \A g \in {LOW, NORMAL, HIGH} :
                 /\ Book' = SmartAfter(g).book
                 /\ portfolio_value' = SmartAfter(g).pv
          /\ pc # "settle" => cur_row'.regime_signal = cur_row.regime_signal]_vars

\* The private label of the row is Low and the strategy has bought the
\* underlying with its cash, on a row the caller's table labels High.
C26_Witness ==
    /\ kind = "SmartWheel" /\ pc = "record"
    /\ signals[row_no] = LOW /\ cur_row.regime_signal = HIGH
    /\ wheel_state = "STOCK" /\ cash = 0 /\ stock_holdings > 0
    /\ current_option = <<>>

\* ------------------------------------------------------------------------
\* Cash-Secured Put over a series of constant spot
\* ------------------------------------------------------------------------
\* The spot of every row read so far is the spot of the current row.
ConstantSpot == \A k \in DOMAIN history : history[k].spot = cur_row.price

\* A run of CashSecuredPutStrategy (otm = put_otm) on a capital of 200
\* dollars, which buys more than a thousandth of a unit at any strike.
FundedCspRun == kind = "CashSecuredPut" /\ cash >= 200 * MoneyScale

\* The days the put opened on the last multiple of the tenor has left on
\* row n (rows counted from 1).
DaysLeftOn(n) == tenor - ((n - 1) % tenor)

C28_DataErrorsFatal ==
    \A k \in DOMAIN history : history[k].spot > 0

\* ------------------------------------------------------------------------
\* The Wheel: expiry without assignment
\* ------------------------------------------------------------------------
\* An option of the given type and strike expires unassigned at the spot.
Unassigned(type, strike, spot) ==
    \/ type = "put" /\ spot >= strike
    \/ type = "call" /\ spot <= strike

\* The settle step of a Wheel on the row its option expires, unassigned.
WheelExpiresUnassigned ==
    /\ pc = "settle" /\ pc' = "decide"
    /\ \/ /\ kind = "Wheel" /\ positions # <<>>
          /\ positions[1].days_left <= 1
          /\ Unassigned(positions[1].type, positions[1].strike, cur_row'.price)
       \/ /\ kind = "WheelDelta" /\ current_option # <<>>
          /\ row_no >= current_option[1].expiry_idx
          /\ Unassigned(current_option[1].type, current_option[1].strike,
                        cur_row'.price)
\* The type of the option that expires.
ExpiringType ==
    IF kind = "Wheel" THEN positions[1].type ELSE current_option[1].type

\* The type of option the stage of the Wheel sells: puts on cash, calls on
\* the underlying.
TypeOfStage ==
    IF kind = "Wheel"
    THEN (IF stage = "CSP" THEN "put" ELSE "call")
    ELSE (IF wheel_state = "CASH" THEN "put" ELSE "call")

\* The decision step of a Wheel sells an option.
WheelSells ==
    /\ pc = "decide" /\ pc' = "record"
    /\ \/ kind = "Wheel" /\ positions = <<>> /\ positions' # <<>>
       \/ kind = "WheelDelta" /\ current_option = <<>> /\ current_option' # <<>>
SoldType ==
    IF kind = "Wheel" THEN positions'[1].type ELSE current_option'[1].type

\* C29: a Wheel short put settled at spot >= strike, or short call settled
\* at spot <= strike, leaves cash, underlying and the stage as they were and
\* closes the option; the stage it leaves is the one that sells the type
\* that expired, and an option the Wheel sells is of the type of its stage.
C29_ExpiryWithoutAssignment ==
    [][/\ WheelExpiresUnassigned =>
              /\ UNCHANGED <<cash, btc, stock_holdings, stage, wheel_state>>
              /\ positions' = <<>> /\ current_option' = <<>>
              /\ TypeOfStage' = ExpiringType
       /\ WheelSells => SoldType = TypeOfStage]_vars

\* The put a Wheel of strategy.py sold on the first row has expired on the
\* second without assignment: the stage still sells puts and the premium is
\* kept.
C29_Witness ==
    /\ kind = "Wheel" /\ pc = "decide" /\ tenor = 1 /\ row_no = 2
    /\ stage = "CSP" /\ positions = <<>> /\ btc = 0
    /\ cash > 200 * MoneyScale

\* ------------------------------------------------------------------------
\* The cash buffer of the Collar and of the Chameleon
\* ------------------------------------------------------------------------
\* A decision that starts with the rebalancing: every decision of a Collar,
\* and those of a Chameleon that find no position open.
Rebalances ==
    /\ pc = "decide"
    /\ \/ kind = "Collar"
       \/ kind = "Chameleon" /\ positions = <<>>

\* What the claim asks of the account b the rebalancing makes of the account
\* a at the given spot; a holding is sold to the thousandth of a unit.
BufferRestored(a, b, price) ==
    LET E == a.cash + SpotValue(a.btc, price)
        target == Pct(E, 5)
        shortfall == target - a.cash
        sold == a.btc - b.btc
        after == b.cash + SpotValue(b.btc, price)
    IN  IF a.cash < target /\ SpotValue(a.btc, price) > shortfall
        THEN /\ b.cash = target
             /\ SpotValue(sold, price) <= shortfall
             /\ shortfall < SpotValue(sold + 1, price)
             /\ E <= after /\ after < E + SpotValue(1, price)
             /\ b.positions = a.positions /\ b.stage = a.stage
        ELSE b = a

\* C30: the rebalancing of the Collar and of the Chameleon sells the
\* shortfall's worth of underlying when cash is below 5% of E = cash +
\* holdings x spot and the holdings are worth more than the shortfall, so
\* that cash is 5% of E and cash + holdings x spot is still E; otherwise it
\* changes nothing.  A Collar whose positions are open decides nothing else.
C30_CashBufferRebalancing ==
    [][Rebalances =>
          /\ BufferRestored(Acct, CollarRebalance(Acct, cur_row.price),
                            cur_row.price)
          /\ kind = "Collar" /\ positions # <<>> =>
                 BufferRestored(Acct, Acct', cur_row.price)]_vars

\* The spot has risen under an open collar and the decision of the row has
\* sold underlying to bring cash back to 5% of the equity.
C30_Witness ==
    /\ kind = "Collar" /\ pc = "record" /\ tenor = 2 /\ row_no = 2
    /\ Len(positions) = 2 /\ btc > 0
    /\ cur_row.price > history[1].spot
    /\ LET target == Pct(cash + SpotValue(btc, cur_row.price), 5)
       IN  target - cash >= 0 /\ target - cash <= SpotValue(1, cur_row.price)

\* ------------------------------------------------------------------------
\* The Wheel's collateral and stage
\* ------------------------------------------------------------------------
\* The row being read settles the one open option of the Wheel of
\* strategy.py.
WheelExpires ==
    /\ kind = "Wheel" /\ pc = "settle" /\ pc' = "decide"
    /\ positions # <<>> /\ positions[1].days_left <= 1

\* C31: every option the Wheel of strategy.py has opened is settled
\* physically: when a put expires below its strike cash is at least strike x
\* size, the underlying is delivered and the stage becomes CC; when a call
\* expires above its strike the holdings are at least its size, they are
\* called away and the stage becomes CSP; the cash-settled branches of
\* _settle are not taken.
C31_PhysicalSettlement ==
    [][WheelExpires =>
          LET pos == positions[1]
              spot == cur_row'.price
          IN  /\ (pos.type = "put" /\ spot < pos.strike) =>
                     /\ cash >= SpotValue(pos.size, pos.strike)
                     /\ btc' = btc + pos.size /\ stage' = "CC"
              /\ (pos.type = "call" /\ spot > pos.strike) =>
                     /\ btc >= pos.size
                     /\ btc' = btc - pos.size /\ stage' = "CSP"]_vars

\* A Wheel of tenor 1 whose put, sold at a spot of 100, was assigned at 80
\* and whose call, sold there, has just been called away at 120.
C31_Witness ==
    /\ kind = "Wheel" /\ pc = "decide" /\ row_no = 2 * tenor + 1
    /\ history[1].spot = 100 /\ history[tenor + 1].spot = 80
    /\ cur_row.price = 120
    /\ stage = "CSP" /\ btc = 0 /\ positions = <<>>

\* The three Wheels: strategy.py, strategy_wheel.py, strategy_chamelon.py.
WheelKinds == {"Wheel", "WheelDelta", "SmartWheel"}

\* An open put goes with the stage CSP (CASH) and no holdings, an open call
\* with the stage CC (STOCK) and holdings of its size.
StageConsistent ==
    /\ kind = "Wheel" =>
           \A k \in DOMAIN positions :
               IF positions[k].type = "put"
               THEN stage = "CSP" /\ btc = 0
               ELSE stage = "CC" /\ btc = positions[k].size
    /\ kind \in {"WheelDelta", "SmartWheel"} =>
           \A k \in DOMAIN current_option :
               IF current_option[k].type = "put"
               THEN wheel_state = "CASH" /\ stock_holdings = 0
               ELSE wheel_state = "STOCK"
                    /\ stock_holdings = current_option[k].contracts

StageChanges == stage' # stage \/ wheel_state' # wheel_state

\* The step settles an option that expires in the money.
AssignmentSettles ==
    /\ pc = "settle" /\ pc' = "decide"
    /\ \/ /\ kind = "Wheel" /\ positions # <<>> /\ positions[1].days_left <= 1
          /\ IF positions[1].type = "put"
             THEN cur_row'.price < positions[1].strike
             ELSE cur_row'.price > positions[1].strike
       \/ /\ kind \in {"WheelDelta", "SmartWheel"} /\ current_option # <<>>
          /\ row_no >= current_option[1].expiry_idx
          /\ IF current_option[1].type = "put"
             THEN cur_row'.price < current_option[1].strike
             ELSE cur_row'.price > current_option[1].strike

\* The decision of a SmartWheel row its engine labels Low, taken in the state
\* CASH with no option open.
LowSwitches ==
    /\ kind = "SmartWheel" /\ pc = "decide" /\ current_option = <<>>
    /\ signals[row_no] = LOW
    /\ wheel_state = "CASH" /\ wheel_state' = "STOCK"

\* C32 as stated: at every recorded step of a Wheel an open put goes with
\* CSP (CASH) and no holdings, an open call with CC (STOCK) and holdings of
\* its size, and the stage changes only at a settlement that is an
\* assignment.
C32_AsStated ==
    [][/\ pc' = "record" => StageConsistent'
       /\ StageChanges => AssignmentSettles]_vars

\* C32: at every recorded step of a Wheel an open put goes with CSP (CASH)
\* and no holdings, an open call with CC (STOCK) and holdings of its size;
\* the stage changes only at a settlement that is an assignment or, in the
\* SmartWheel, at the decision of a Low row that turns CASH into STOCK.
C32_StageConsistency ==
    [][/\ pc' = "record" => StageConsistent'
       /\ StageChanges => (AssignmentSettles \/ LowSwitches)]_vars

\* A SmartWheel records a row on which a call is open over the underlying a
\* put assignment delivered.
C32_Witness ==
    /\ kind = "SmartWheel" /\ pc = "record"
    /\ current_option # <<>> /\ current_option[1].type = "call"
    /\ wheel_state = "STOCK" /\ stock_holdings = current_option[1].contracts

\* ------------------------------------------------------------------------
\* Cover and collateral
\* ------------------------------------------------------------------------
\* C33: in the Covered Call, the Collar, the Chameleon and the Wheels, while
\* a short call is open the underlying held is at least the size of the call.
C33_CallsCovered ==
    /\ kind \in {"CoveredCall", "Collar", "Chameleon", "Wheel"} =>
           \A k \in DOMAIN positions :
               (positions[k].type = "call" /\ positions[k].side = "short") =>
                   btc >= positions[k].size
    /\ kind \in {"WheelDelta", "SmartWheel"} =>
           \A k \in DOMAIN current_option :
               current_option[k].type = "call" =>
                   stock_holdings >= current_option[k].contracts

\* The most the cash settlement of a short put can cost on a row of the
\* table.
WorstLoss(size, strike) ==
    LET Loss(rw) == SpotValue(size, Max(0, strike - rw.price))
    IN  CHOOSE l \in {Loss(rw) : rw \in RowsFor(kind)} :
            \A rw \in RowsFor(kind) : Loss(rw) <= l

\* C34: the cash of a Cash-Secured Put (strategy.py and strategy_csp.py) is
\* never negative: while its put is open the cash covers strike x size, which
\* no cash-settled loss (strike - spot) x size on a row of positive spot
\* exceeds.
C34_NeverInDebt ==
    /\ kind = "CashSecuredPut" =>
           /\ cash >= 0
           /\ \A k \in DOMAIN positions :
                  /\ SpotValue(positions[k].size, positions[k].strike) <= cash
                  /\ WorstLoss(positions[k].size, positions[k].strike) <= cash
    /\ kind = "CspDelta" =>
           /\ cash >= 0
           /\ \A k \in DOMAIN current_option :
                  /\ SpotValue(current_option[k].contracts,
                               current_option[k].strike) <= cash
                  /\ WorstLoss(current_option[k].contracts,
                               current_option[k].strike) <= cash

\* A Cash-Secured Put whose first put, sold at a spot of 120, has just been
\* settled at 80: the loss was paid out of the cash and cash is left.
C34_Witness ==
    /\ kind = "CashSecuredPut" /\ pc = "decide" /\ row_no = tenor + 1
    /\ history[1].spot = 120 /\ cur_row.price = 80
    /\ positions = <<>>
    /\ cash < 200 * MoneyScale /\ cash > 0

\* ------------------------------------------------------------------------
\* The labels of the regime engine along a column
\* ------------------------------------------------------------------------
\* The state the engine holds once the rows labelled so far are behind it,
\* if rows without thresholds leave it alone: the label of the last row with
\* thresholds, Normal if there is none.
StateBeforeGap ==
    LET j == PrevDefined(Len(signals) + 1)
    IN  IF j = 0 THEN NORMAL ELSE signals[j]

\* C35: a row whose quantile thresholds are unavailable is labelled Normal
\* and leaves the state of the engine as it was: the state a later row is
\* evaluated from is the label of the last row that had thresholds, not the
\* Normal of the rows in between.
C35_StateAcrossGaps ==
    /\ \A i \in 1..Len(signals) : q_he[i] = NaN => signals[i] = NORMAL
    /\ current_state = StateBeforeGap

\* A High row, rows without thresholds labelled Normal, and then a row with
\* thresholds that is High although its value does not exceed its high-enter
\* quantile.
C35_Witness ==
    \E i \in DefinedRows :
        LET j == PrevDefined(i)
        IN  /\ j # 0 /\ j < i - 1
            /\ signals[j] = HIGH
            /\ \A k \in (j + 1)..(i - 1) : signals[k] = NORMAL
            /\ signals[i] = HIGH
            /\ ~FGt(Val100(df_sigma[i]), q_he[i])

\* C36: every label add_signals gives is Low, Normal or High, and of two
\* rows that follow each other one is never High and the other Low.
C36_NoDirectHighLow ==
    /\ \A i \in 1..Len(signals) : signals[i] \in {LOW, NORMAL, HIGH}
    /\ \A i \in 1..(Len(signals) - 1) :
           {signals[i], signals[i + 1]} # {LOW, HIGH}

\* A column labelled High, then Normal, then Low on three rows in a row, by
\* way of thresholds defined on each of them.
C36_Witness ==
    \E i \in 1..(Len(signals) - 2) :
        /\ {i, i + 1, i + 2} \subseteq DefinedRows
        /\ signals[i] = HIGH /\ signals[i + 1] = NORMAL /\ signals[i + 2] = LOW
        /\ FLt(Val100(df_sigma[i + 1]), q_le[i + 1])

\* ------------------------------------------------------------------------
\* The end of the table
\* ------------------------------------------------------------------------
\* C37: in the delta-targeted strategies an open option was opened at least
\* target_dte rows before the end of the table, so its expiry row is a row
\* of the table; once the expiry check of the last row has run no option is
\* open, and the last portfolio value is cash plus the underlying held.
C37_EndOfDataGuard ==
    kind \in DeltaKinds =>
        /\ \A k \in DOMAIN current_option :
               /\ current_option[k].expiry_idx <= df_len
               /\ current_option[k].expiry_idx - tenor >= 1
        /\ (row_no = df_len /\ pc # "settle") => current_option = <<>>
        /\ pc = "done" =>
               Last(portfolio_value) = cash + SpotValue(stock_holdings, cur_row.price)

\* A Cash-Secured Put run over three rows with a tenor of two: the put sold
\* on row 1, the only row that may open one, was settled at a loss on the
\* last row, and the run is over.
C37_Witness ==
    /\ kind = "CspDelta" /\ pc = "done" /\ tenor = 2 /\ df_len = 3
    /\ current_option = <<>>
    /\ portfolio_value[2] # portfolio_value[1]
    /\ cash < 200 * MoneyScale /\ cash > MoneyScale

\* ------------------------------------------------------------------------
\* Several positions expiring on one row
\* ------------------------------------------------------------------------
\* The row being read takes the last day off two or more positions of an
\* account settled in cash.
SeveralExpire ==
    /\ pc = "settle" /\ pc' = "decide"
    /\ kind \in AccountKinds \ {"Wheel"}
    /\ Cardinality({k \in DOMAIN positions : positions[k].days_left <= 1}) >= 2

\* The cash one settlement of each position of ps on its last day moves.
RECURSIVE SettledOnce(_, _)
SettledOnce(ps, spot) ==
    IF ps = <<>> THEN 0
    ELSE LET pos == Head(ps)
             payoff == IF pos.type = "call" THEN Max(0, spot - pos.strike)
                       ELSE Max(0, pos.strike - spot)
             flow == IF pos.days_left > 1 THEN 0
                     ELSE IF pos.side = "short" THEN 0 - SpotValue(pos.size, payoff)
                     ELSE SpotValue(pos.size, payoff)
         IN  flow + SettledOnce(Tail(ps), spot)

\* The positions ps a day later, in their order, without those at zero.
DayLater(ps) ==
    SelectSeq([k \in DOMAIN ps |-> [ps[k] EXCEPT !.days_left = @ - 1]],
              LAMBDA pos : pos.days_left > 0)

\* The open positions with those of the set late given one more day to run.
HeldBack(late) ==
    [k \in DOMAIN positions |->
        IF k \in late THEN [positions[k] EXCEPT !.days_left = @ + 1]
        ELSE positions[k]]

\* C38: when several positions reach zero days on the same row, the
\* settlement phase settles each of them once at the spot of the row and
\* removes all of them, and no position with days_left <= 0 is left; had
\* some of the positions one more day to run, the loop would settle and
\* remove the others only and keep those, a day shorter, in their order.
C38_SimultaneousExpiries ==
    [][SeveralExpire =>
          LET spot == cur_row'.price
          IN  /\ positions' = DayLater(positions)
              /\ \A k \in DOMAIN positions' : positions'[k].days_left > 0
              /\ cash' = cash + SettledOnce(positions, spot)
              /\ btc' = btc
              /\ \A late \in SUBSET DOMAIN positions :
                     LET a == [Acct EXCEPT !.positions = HeldBack(late)]
                         b == SettleLoop(kind, a, Len(a.positions), spot)
                     IN  /\ b.positions = DayLater(a.positions)
                         /\ Len(b.positions) = Cardinality(late)
                         /\ b.cash = cash + SettledOnce(a.positions, spot)
                         /\ b.btc = btc]_vars

\* Both legs of a Collar opened at a spot of 100 have just been settled at
\* 120: the long put expired worthless, the short call was paid out of the
\* cash buffer, and no position is left.
C38_Witness ==
    /\ kind = "Collar" /\ pc = "decide" /\ tenor = 1 /\ row_no = 2
    /\ history[1].spot = 100 /\ cur_row.price = 120
    /\ positions = <<>> /\ btc > 0
    /\ cash < 0

\* ------------------------------------------------------------------------
\* The delta lookup and the set-up of the cache
\* ------------------------------------------------------------------------
\* The delta the lookup compares the rows with: the magnitude of a negative
\* target when every delta of the rows is positive (lines 171-174).
LookedUpTarget ==
    IF req[1].target_delta < 0 /\ \A j \in DOMAIN ReqChain : ReqChain[j].Delta > 0
    THEN Abs(req[1].target_delta) ELSE req[1].target_delta

\* How far the delta of row j is from the delta compared.
DeltaDistance(j) == Abs(ReqChain[j].Delta - LookedUpTarget)

IsSetupStep == req = <<>> /\ req' = <<>>

\* A call of setup_market_data that builds a cache.
SetupSucceeds == \E f \in Files : SetupMarketData(f) /\ is_setup'

\* C40: once setup_market_data has built the cache, a later call, whatever
\* the file, changes nothing; a call that finds no file or fails to load it
\* leaves the engine not set up, and a later call can still build the cache;
\* an engine that is set up has a cache.
C40_OneShotSetup ==
    /\ [](is_setup => market_cache # <<>>)
    /\ []((~is_setup /\ req = <<>>) => ENABLED SetupSucceeds)
    /\ [][IsSetupStep =>
              IF is_setup
              THEN UNCHANGED <<is_setup, market_cache, setup_msg>>
              ELSE /\ setup_msg' \in {"not_found", "failed"} => ~is_setup'
                   /\ is_setup' => setup_msg' = "built"]_vars

\* The engine was set up from the file that quotes no put, and files with
\* other chains are there to be named in a later call.
C40_Witness ==
    /\ is_setup /\ req = <<>> /\ setup_msg = "built"
    /\ market_cache = <<CallsOnly>>
    /\ \E f \in Files : f.readable /\ f.chain # market_cache

====
